---- MODULE Spec2Model ----
(***************************************************************************)
(* split51: WASAPI loopback capture -> channel router -> DSP chain ->      *)
(* (resampler) -> SPSC ring buffer -> render callback.                     *)
(*                                                                         *)
(* The module holds state machines over disjoint variables:                *)
(*   SpecChannels  the channel router process_channels (audio/loopback.rs) *)
(*   SpecDelay     DelayBuffer (dsp/mod.rs)                                *)
(*   SpecRoute     AudioRouter, LoopbackCapture, the capture thread, the   *)
(*                 ring buffer and the render callback (audio/mod.rs,      *)
(*                 audio/loopback.rs)                                      *)
(*   SpecCapture   one capture thread statement by statement: the shared   *)
(*                 parameters and their locks, the device volume poll, the *)
(*                 stages a sample passes and the resampler queues         *)
(*                 (audio/loopback.rs), with the AudioRouter setters       *)
(*   SpecPoll      the same thread with writes to the shared DSP           *)
(*                 parameters                                              *)
(*   SpecMeter     LevelMeter in f32 arithmetic (dsp/mod.rs)               *)
(*   SpecLevels    SharedLevels (dsp/mod.rs)                               *)
(*   SpecLevelThreads  SharedLevels::update and SharedLevels::get on two   *)
(*                 threads, store by store and load by load                *)
(*   SpecChain     DspChain: delay, EQ, meter input, publication of the    *)
(*                 levels (dsp/mod.rs)                                     *)
(*   SpecDecode    bytes_to_f32 (audio/loopback.rs)                        *)
(*   SpecApp       main and the tray commands of App (main.rs)             *)
(* Each specification leaves the variables of the others at their initial  *)
(* values; the DspChain publishes into the SharedLevels' variable.         *)
(***************************************************************************)
EXTENDS Integers, Sequences, FiniteSets, TLC

VARIABLES
    \* ---- channel router (process_channels) ----
    chIn,       \* arguments of one process_channels call
    chOut,      \* its result: done (the call has returned) and the output Vec<f32>
    \* ---- DelayBuffer ----
    dl,         \* the DelayBuffer: buffer, write_pos, delay_samples
    dlLog,      \* history: one record (input, output, delay) per process call
    dlFresh,    \* history: phase "new" (constructed), "set" (set_delay_samples called
                \*          once, before any process call), "mixed" (anything else);
                \*          requested: the argument of that one call;
                \*          last_delay: delay_samples at the latest process call
    \* ---- route: AudioRouter / LoopbackCapture / capture thread / render ----
    router,     \* AudioRouter fields: running, loopback, output_stream
    ctl,        \* the control surface's position inside start_loopback / stop
    thr,        \* capture threads, by id: position and locals of capture_loop
    lbRunning,  \* LoopbackCapture.running of each capture (Arc<AtomicBool>)
    rb,         \* ring buffer of each route (HeapRb<f32>)
    cb,         \* render callback of the live output stream: position, the n slots
                \*   asked for, the slots written so far, items taken from the ring
    hist,       \* history: spawned (routes made), frames (frames captured), attempts (try_push calls per route),
                \*   pushed / popped (values whose push / pop succeeded, in order),
                \*   joined (LoopbackCapture::stop has returned from the join),
                \*   result (what the start_loopback call that made the route returned),
                \*   last_start (what the latest start_loopback returned; "none" once
                \*   another start or stop has begun)
    \* ---- one capture thread, statement by statement ----
    cfg,        \* the shared parameters: one field per Arc<RwLock<_>>
    held,       \* the lock guards alive in the capture thread and in the control
                \*   surface, in the order they were taken
    cap,        \* the capture thread: position and locals of capture_loop
    cctl,       \* the control surface: LoopbackCapture.running, the setter under
                \*   way, calls made
    clog,       \* history: frames delivered, chunks the resampler consumed, the
                \*   stages of every pushed sample
    \* ---- LevelMeter ----
    meter,      \* the LevelMeter, the input pair and the number of process calls
    \* ---- DspChain ----
    dc,         \* the DspChain: delay lines, equalizers, update_counter, caches
    chlog,      \* history: process calls made, the calls that published a level
                \*   snapshot, the latest call and what it returned
    \* ---- SharedLevels ----
    levels,     \* the two AtomicU32 of SharedLevels and the latest update arguments
    lvt,        \* SharedLevels between two threads: the atomics, where update and
                \*   get stand, the pairs published and the pair get returned
    \* ---- bytes_to_f32 ----
    pcm,        \* one bytes_to_f32 call: data, bytes_per_sample, result
    \* ---- App (main.rs) ----
    app         \* the App: config, device names, its AudioRouter, the latest command

chVars == <<chIn, chOut>>
dlVars == <<dl, dlLog, dlFresh>>
rtVars == <<router, ctl, thr, lbRunning, rb, cb, hist>>
cpVars == <<cfg, held, cap, cctl, clog>>
mtVars == <<meter>>
dcVars == <<dc, chlog>>
lvVars == <<levels, lvt>>
pcmVars == <<pcm>>
apVars == <<app>>
vars == <<chIn, chOut, dl, dlLog, dlFresh, router, ctl, thr, lbRunning, rb, cb, hist,
          cfg, held, cap, cctl, clog, meter, dc, chlog, levels, lvt, pcm, app>>

(***************************************************************************)
(* f32 values.  A value is NaN, an infinity, or a finite dyadic rational   *)
(* n / 2^e.  Sums and products of the small dyadic values used here are    *)
(* exact in f32 (24-bit significand), so the arithmetic below is the       *)
(* arithmetic the program performs on them, IEEE special values included.  *)
(***************************************************************************)
RECURSIVE Pow2(_)
Pow2(e) == IF e = 0 THEN 1 ELSE 2 * Pow2(e - 1)

RECURSIVE Fin(_, _)
Fin(n, e) ==
    IF e > 0 /\ n % 2 = 0 THEN Fin(n \div 2, e - 1)
    ELSE [k |-> "fin", n |-> n, e |-> e]

NaN == [k |-> "nan", n |-> 0, e |-> 0]
Inf(s) == [k |-> "inf", n |-> s, e |-> 0]
Zero == Fin(0, 0)
One == Fin(1, 0)
Half == Fin(1, 1)

Sgn(n) == IF n > 0 THEN 1 ELSE IF n < 0 THEN -1 ELSE 0

FNeg(a) == IF a.k = "nan" THEN NaN ELSE [a EXCEPT !.n = -a.n]

FMul(a, b) ==
    IF a.k = "nan" \/ b.k = "nan" THEN NaN
    ELSE IF a.k = "inf" \/ b.k = "inf"
         THEN IF a.n = 0 \/ b.n = 0 THEN NaN ELSE Inf(Sgn(a.n) * Sgn(b.n))
         ELSE Fin(a.n * b.n, a.e + b.e)

FAdd(a, b) ==
    IF a.k = "nan" \/ b.k = "nan" THEN NaN
    ELSE IF a.k = "inf" /\ b.k = "inf" THEN (IF a.n = b.n THEN a ELSE NaN)
    ELSE IF a.k = "inf" THEN a
    ELSE IF b.k = "inf" THEN b
    ELSE LET e == IF a.e > b.e THEN a.e ELSE b.e
         IN  Fin(a.n * Pow2(e - a.e) + b.n * Pow2(e - b.e), e)

FSub(a, b) == FAdd(a, FNeg(b))

\* a < b on f32: false whenever an operand is NaN
FLt(a, b) ==
    IF a.k = "nan" \/ b.k = "nan" THEN FALSE
    ELSE IF a.k = "inf" /\ b.k = "inf" THEN a.n < b.n
    ELSE IF a.k = "inf" THEN a.n < 0
    ELSE IF b.k = "inf" THEN b.n > 0
    ELSE a.n * Pow2(b.e) < b.n * Pow2(a.e)

FGt(a, b) == FLt(b, a)
FLe(a, b) == a.k # "nan" /\ b.k # "nan" /\ ~FLt(b, a)

\* f32::clamp(self, min, max): "if self < min {min} else if self > max {max}
\* else {self}"; a NaN self compares false both times and is returned.
FClamp(x, lo, hi) ==
    IF FLt(x, lo) THEN lo ELSE IF FGt(x, hi) THEN hi ELSE x

InUnitRange(x) == FLe(FNeg(One), x) /\ FLe(x, One)

(***************************************************************************)
(* f32 values, bit for bit.  Here an f32 is a sign s, a 24-bit significand  *)
(* m (2^23 <= m < 2^24, or 0 for zero) and an exponent x: the value         *)
(* s * m * 2^x.  Every operation rounds to nearest, ties to even, as the    *)
(* hardware does; the values reached stay far from the subnormal and        *)
(* overflow ranges.                                                         *)
(***************************************************************************)
RECURSIVE BitLen(_)
BitLen(n) == IF n = 0 THEN 0 ELSE 1 + BitLen(n \div 2)

BZero == [s |-> 1, m |-> 0, x |-> 0]

\* s * n * 2^x (plus a positive amount below 2^x when sticky) rounded to f32
BRound(s, n, x, sticky) ==
    IF n = 0 THEN BZero
    ELSE LET k == BitLen(n)
         IN  IF k <= 24
             THEN [s |-> s, m |-> n * Pow2(24 - k), x |-> x - (24 - k)]
             ELSE LET sh == k - 24
                      q == n \div Pow2(sh)
                      r == n % Pow2(sh)
                      half == Pow2(sh - 1)
                      up == r > half \/ (r = half /\ (sticky \/ q % 2 = 1))
                      q1 == IF up THEN q + 1 ELSE q
                  IN  IF q1 = Pow2(24)
                      THEN [s |-> s, m |-> Pow2(23), x |-> x + sh + 1]
                      ELSE [s |-> s, m |-> q1, x |-> x + sh]

\* a * b: the 48-bit product of the significands from 12-bit halves
BMul(a, b) ==
    IF a.m = 0 \/ b.m = 0 THEN BZero
    ELSE LET ah == a.m \div 4096
             al == a.m % 4096
             bh == b.m \div 4096
             bl == b.m % 4096
             low == al * bl
             mid == ah * bl + al * bh + (low \div 4096)
             hi == ah * bh + (mid \div 4096)                \* product \div 2^24
             lo == (mid % 4096) * 4096 + (low % 4096)        \* product % 2^24
             wide == hi >= Pow2(23)
             q == IF wide THEN hi ELSE 2 * hi + (lo \div Pow2(23))
             r == IF wide THEN lo ELSE lo % Pow2(23)
             half == IF wide THEN Pow2(23) ELSE Pow2(22)
             x == a.x + b.x + (IF wide THEN 24 ELSE 23)
             q1 == IF r > half \/ (r = half /\ q % 2 = 1) THEN q + 1 ELSE q
         IN  IF q1 = Pow2(24)
             THEN [s |-> a.s * b.s, m |-> Pow2(23), x |-> x + 1]
             ELSE [s |-> a.s * b.s, m |-> q1, x |-> x]

BNeg(a) == IF a.m = 0 THEN a ELSE [a EXCEPT !.s = -a.s]

\* a + b: the operand with the smaller exponent is shifted under six extra
\* bits of the other; what is shifted out is kept as a sticky bit
BAdd(a, b) ==
    IF a.m = 0 THEN b
    ELSE IF b.m = 0 THEN a
    ELSE LET big == IF a.x >= b.x THEN a ELSE b
             small == IF a.x >= b.x THEN b ELSE a
             d == big.x - small.x
             A == big.m * 64
             B == IF d <= 30 THEN (small.m * 64) \div Pow2(d) ELSE 0
             lost == IF d <= 30 THEN (small.m * 64) % Pow2(d) # 0 ELSE TRUE
         IN  IF big.s = small.s
             THEN BRound(big.s, A + B, big.x - 6, lost)
             ELSE IF A >= B
                  THEN BRound(big.s, IF lost THEN A - B - 1 ELSE A - B, big.x - 6, lost)
                  ELSE BRound(small.s, B - A, big.x - 6, FALSE)

BSub(a, b) == BAdd(a, BNeg(b))

\* a > b
BGt(a, b) ==
    LET MagGt(u, v) ==
            u.m # 0 /\ (v.m = 0 \/ u.x > v.x \/ (u.x = v.x /\ u.m > v.m))
    IN  IF a.s = 1 /\ b.s = 1 THEN MagGt(a, b)
        ELSE IF a.s = -1 /\ b.s = -1 THEN MagGt(b, a)
        ELSE a.s = 1 /\ (a.m # 0 \/ b.m # 0)

BAbs(a) == [a EXCEPT !.s = 1]

\* n as f32, for 0 <= n < 2^24 (exact)
BFromInt(n) == BRound(1, n, 0, FALSE)

\* a / d for a divisor d that is a whole number, 1 <= d <= 1024: the quotient
\* of the significand with 6 (d < 32) or 12 extra bits, the remainder sticky
BDivInt(a, d) ==
    IF a.m = 0 THEN a
    ELSE LET k == IF d < 32 THEN 6 ELSE 12
             q0 == a.m \div d
             r0 == a.m % d
             q == q0 * Pow2(k) + ((r0 * Pow2(k)) \div d)
             r == (r0 * Pow2(k)) % d
         IN  BRound(a.s, q, a.x - k, r # 0)

\* a as u32 / as usize for a below 2^31: the fraction is dropped, a negative
\* value gives 0
BTrunc(a) ==
    IF a.m = 0 \/ a.s = -1 THEN 0
    ELSE IF a.x >= 0 THEN a.m * Pow2(a.x)
    ELSE IF -a.x >= 24 THEN 0
    ELSE a.m \div Pow2(-a.x)

\* v > p / q and v < p / q for a positive v below 1 and 0 < p, q < 1024
BGtRat(v, p, q) ==
    LET n == -v.x - 12
        whole == (v.m \div 4096) * q + (((v.m % 4096) * q) \div 4096)
        part == ((v.m % 4096) * q) % 4096
        rhs == p * Pow2(n)
    IN  v.s = 1 /\ v.m # 0 /\ (whole > rhs \/ (whole = rhs /\ part > 0))

BLtRat(v, p, q) ==
    LET n == -v.x - 12
        whole == (v.m \div 4096) * q + (((v.m % 4096) * q) \div 4096)
        rhs == p * Pow2(n)
    IN  v.s = -1 \/ v.m = 0 \/ whole < rhs

\* the f32 nearest to 0.01, 0.001, 0.9995; 0.5 and 0.25
B_0_01 == [s |-> 1, m |-> 10737418, x |-> -30]
B_0_001 == [s |-> 1, m |-> 8589935, x |-> -33]
B_0_9995 == [s |-> 1, m |-> 16768827, x |-> -24]
B_0_5 == [s |-> 1, m |-> 8388608, x |-> -24]
B_0_25 == [s |-> 1, m |-> 8388608, x |-> -25]

(***************************************************************************)
(* Channel router: process_channels (audio/loopback.rs) and                *)
(* DspChain::get_upmix (dsp/mod.rs).                                       *)
(***************************************************************************)
ChannelSource == {"FL", "FR", "RL", "RR"}

\* input.get(i).copied().unwrap_or(0.0), i counted from 0
InputGet(input, i) == IF i < Len(input) THEN input[i + 1] ELSE Zero

\* mutant of get_channel_idx: the rear sources keep their own indices on a
\* source with fewer than four channels
get_channel_idx_NoFallback(source, channels) ==
    CASE source = "FL" -> 0
      [] source = "FR" -> 1
      [] source = "RL" -> 2
      [] source = "RR" -> 3

get_channel_idx(source, channels) ==
    CASE source = "FL" -> 0
      [] source = "FR" -> 1
      [] source = "RL" -> (IF channels >= 4 THEN 2 ELSE 0)
      [] source = "RR" -> (IF channels >= 4 THEN 3 ELSE 1)

\* mutant of left_mult: the selected side is boosted
left_mult_Boost(balance) == IF FGt(balance, Zero) THEN FAdd(One, balance) ELSE One

left_mult(balance) == IF FGt(balance, Zero) THEN FSub(One, balance) ELSE One
right_mult(balance) == IF FLt(balance, Zero) THEN FAdd(One, balance) ELSE One

\* DspChain::get_upmix.  dsp.rear stands for the pair Upmixer::process returns
\* for this frame (a filtered, delayed, cross-fed and scaled copy of the front
\* pair): it is an input of the router, drawn from UpmixRear.
get_upmix(dsp, front_l, front_r) ==
    IF dsp.upmix_enabled THEN dsp.rear ELSE <<Zero, Zero>>

\* mutant of the frame loop body: the balance multipliers are applied before
\* the swap, so each side keeps its own multiplier
ProcessFrame_SwapAfterBalance(input, frame, channels, volume, swap, balance, left_ch, right_ch, dsp) ==
    LET base == frame * channels
        upmix == get_upmix(dsp, InputGet(input, base), InputGet(input, base + 1))
        left0 == IF left_ch.muted THEN Zero
                 ELSE FMul(InputGet(input, base + get_channel_idx(left_ch.source, channels)),
                           left_ch.volume)
        right0 == IF right_ch.muted THEN Zero
                  ELSE FMul(InputGet(input, base + get_channel_idx(right_ch.source, channels)),
                            right_ch.volume)
        bal_l == FMul(FMul(FAdd(left0, upmix[1]), volume), left_mult(balance))
        bal_r == FMul(FMul(FAdd(right0, upmix[2]), volume), right_mult(balance))
    IN  <<FClamp(IF swap THEN bal_r ELSE bal_l, FNeg(One), One),
          FClamp(IF swap THEN bal_l ELSE bal_r, FNeg(One), One)>>

\* the body of "for frame in 0..frames": the pair pushed for one frame
ProcessFrame(input, frame, channels, volume, swap, balance, left_ch, right_ch, dsp) ==
    LET base == frame * channels
        fl == InputGet(input, base)
        fr == InputGet(input, base + 1)
        upmix == get_upmix(dsp, fl, fr)
        left_idx == get_channel_idx(left_ch.source, channels)
        right_idx == get_channel_idx(right_ch.source, channels)
        left0 == IF left_ch.muted THEN Zero
                 ELSE FMul(InputGet(input, base + left_idx), left_ch.volume)
        right0 == IF right_ch.muted THEN Zero
                  ELSE FMul(InputGet(input, base + right_idx), right_ch.volume)
        left1 == FAdd(left0, upmix[1])
        right1 == FAdd(right0, upmix[2])
        left == IF swap THEN right1 ELSE left1
        right == IF swap THEN left1 ELSE right1
        out_l == FClamp(FMul(FMul(left, volume), left_mult(balance)), FNeg(One), One)
        out_r == FClamp(FMul(FMul(right, volume), right_mult(balance)), FNeg(One), One)
    IN  <<out_l, out_r>>

process_channels(input, channels, volume, swap, balance, left_ch, right_ch, dsp) ==
    IF Len(input) = 0 \/ channels = 0 THEN <<>>
    ELSE LET frames == Len(input) \div channels
         IN  [i \in 1..(2 * frames) |->
                ProcessFrame(input, (i - 1) \div 2, channels, volume, swap, balance,
                             left_ch, right_ch, dsp)[((i - 1) % 2) + 1]]

\* ---- the inputs the router is exercised on ----
MaxChannels == 6

ChFrames ==
    { <<One, FNeg(Half), Fin(1, 2), FNeg(One)>>,
      <<Fin(3, 1), Fin(-3, 1), Half, Fin(-1, 2)>>,
      <<NaN, Half, Half, Half>>,
      <<Inf(1), Half, Inf(-1), Fin(1, 2)>>,
      <<One, Half, Fin(1, 2)>>,
      <<One, FNeg(Half), Fin(1, 2), FNeg(One), Half, Fin(3, 2)>>,
      <<>> }

ChVolumes == {Zero, One}
ChSideVolumes == {One, Fin(2, 0)}
ChBalances == {FNeg(One), Zero, Half, One}
UpmixRear == { <<Half, Fin(-1, 2)>>, <<Fin(2, 0), Fin(-2, 0)>> }

ChannelSettingsSet == [source : ChannelSource, volume : ChSideVolumes, muted : BOOLEAN]
DspUpmixSet ==
    {[upmix_enabled |-> FALSE, rear |-> <<Zero, Zero>>]}
    \cup [upmix_enabled : {TRUE}, rear : UpmixRear]

ChInputs ==
    [input : ChFrames, channels : 0..MaxChannels, volume : ChVolumes, swap : BOOLEAN,
     balance : ChBalances, left_ch : ChannelSettingsSet, right_ch : ChannelSettingsSet,
     dsp : DspUpmixSet]

\* no call is set up
ChIdle == [channels |-> 0]

ChInit == chIn \in ChInputs /\ chOut = [done |-> FALSE, output |-> <<>>]

\* one call of process_channels on the chosen arguments
ProcessChannels ==
    /\ ~chOut.done
    /\ chOut' = [done |-> TRUE,
                 output |-> process_channels(chIn.input, chIn.channels, chIn.volume,
                                chIn.swap, chIn.balance, chIn.left_ch, chIn.right_ch,
                                chIn.dsp)]
    /\ UNCHANGED <<chIn, dl, dlLog, dlFresh, rtVars, cpVars, mtVars, dcVars, lvVars, pcmVars, apVars>>

(***************************************************************************)
(* DelayBuffer (dsp/mod.rs).  Samples are copied, never computed with, so  *)
(* a sample is an integer here; 0 is the 0.0 the buffer is created with.   *)
(***************************************************************************)
MaxDelayCap == 2        \* largest buffer capacity (max_delay_samples) tried
MaxProcessCalls == 4    \* process calls per run
DelayInputs == {0, 1, 2}

Min(a, b) == IF a < b THEN a ELSE b

DelayBuffer_new(max_delay_samples) ==
    [buffer |-> [i \in 1..max_delay_samples |-> 0], write_pos |-> 0, delay_samples |-> 0]

set_delay_samples(self, samples) ==
    [self EXCEPT !.delay_samples = Min(samples, Len(self.buffer))]

\* mutants of DelayBuffer::process
DelayBuffer_process_WriteFirst(self, sample) ==
    IF self.delay_samples = 0 THEN [output |-> sample, self |-> self]
    ELSE LET len == Len(self.buffer)
             read_pos == (self.write_pos + len - self.delay_samples) % len
             written == [self.buffer EXCEPT ![self.write_pos + 1] = sample]
         IN  [output |-> written[read_pos + 1],
              self |-> [self EXCEPT !.buffer = written,
                                    !.write_pos = (self.write_pos + 1) % len]]

DelayBuffer_process_NoBypass(self, sample) ==
    LET len == Len(self.buffer)
    IN  IF len = 0 THEN [output |-> sample, self |-> self]
        ELSE LET read_pos == (self.write_pos + len - self.delay_samples) % len
             IN  [output |-> self.buffer[read_pos + 1],
                  self |-> [self EXCEPT !.buffer[self.write_pos + 1] = sample,
                                        !.write_pos = (self.write_pos + 1) % len]]

\* mutant: the read position is one slot further on
DelayBuffer_process_ReadNext(self, sample) ==
    IF self.delay_samples = 0 THEN [output |-> sample, self |-> self]
    ELSE LET len == Len(self.buffer)
             read_pos == (self.write_pos + len - self.delay_samples + 1) % len
         IN  [output |-> self.buffer[read_pos + 1],
              self |-> [self EXCEPT !.buffer[self.write_pos + 1] = sample,
                                    !.write_pos = (self.write_pos + 1) % len]]

\* DelayBuffer::process: the value returned and the buffer afterwards
DelayBuffer_process(self, sample) ==
    IF self.delay_samples = 0 THEN [output |-> sample, self |-> self]
    ELSE LET len == Len(self.buffer)
             read_pos == (self.write_pos + len - self.delay_samples) % len
         IN  [output |-> self.buffer[read_pos + 1],
              self |-> [self EXCEPT !.buffer[self.write_pos + 1] = sample,
                                    !.write_pos = (self.write_pos + 1) % len]]

DlIdle == DelayBuffer_new(0)
DlFreshIdle == [phase |-> "new", requested |-> 0, last_delay |-> 0]

DlInit ==
    /\ \E capacity \in 0..MaxDelayCap : dl = DelayBuffer_new(capacity)
    /\ dlLog = <<>>
    /\ dlFresh = DlFreshIdle

SetDelaySamples ==
    \E samples \in 0..(MaxDelayCap + 1) :
        /\ dl' = set_delay_samples(dl, samples)
        /\ dlFresh' = IF dlFresh.phase = "new" /\ dlLog = <<>>
                      THEN [dlFresh EXCEPT !.phase = "set", !.requested = samples]
                      ELSE [dlFresh EXCEPT !.phase = "mixed", !.requested = 0]
        /\ UNCHANGED <<dlLog, chVars, rtVars, cpVars, mtVars, dcVars, lvVars, pcmVars, apVars>>

DelayProcess ==
    \E sample \in DelayInputs :
        /\ Len(dlLog) < MaxProcessCalls
        /\ LET res == DelayBuffer_process(dl, sample)
           IN  /\ dl' = res.self
               /\ dlLog' = Append(dlLog, [input |-> sample, output |-> res.output,
                                       delay |-> dl.delay_samples])
        /\ dlFresh' = [dlFresh EXCEPT !.last_delay = dl.delay_samples]
        /\ UNCHANGED <<chVars, rtVars, cpVars, mtVars, dcVars, lvVars, pcmVars, apVars>>

(***************************************************************************)
(* The route: AudioRouter (audio/mod.rs), LoopbackCapture and capture_loop *)
(* (audio/loopback.rs), the ring buffer between them and the render        *)
(* callback.  Every start_loopback that gets as far as the ring buffer     *)
(* makes a new route id: its ring buffer, its LoopbackCapture, its thread. *)
(***************************************************************************)
MaxRoutes == 2      \* start_loopback calls that reach the thread spawn
MaxFrames == 2      \* frames the capture sources deliver in one run, all threads
RbFrames == 1       \* ring buffer capacity in stereo frames (100 ms in the program)
ChunkSize == 2      \* resampler input chunk (1024 in the program)
BufFrameCounts == {0, 1}    \* stereo frames decoded from one capture buffer
RsOutFrames == {1, 2}       \* frames one resample step returns
CbSizes == {2}              \* samples the render callback is asked for
LogEvery == 10000   \* overflow warnings are throttled to every 10,000th

RouteIds == 1..MaxRoutes
NoRoute == 0

\* a pushed sample: <<frame number, side>>; what the callback writes on underflow is 0.0
Silence == <<0, "0.0">>
Vacant == <<0, "-">>

\* ---- ring buffer: ringbuf::HeapRb<f32>, split into producer and consumer ----
\* Index-based ring over a fixed array: read and write indices run modulo
\* 2 * capacity, so that full and empty differ.
RbCapacity == RbFrames * 2

HeapRb_new(capacity) ==
    [capacity |-> capacity, slots |-> [i \in 0..(capacity - 1) |-> Vacant],
     read |-> 0, write |-> 0]

RbOccupied(ring) == (ring.write + 2 * ring.capacity - ring.read) % (2 * ring.capacity)
RbIsFull(ring) == RbOccupied(ring) = ring.capacity
RbIsEmpty(ring) == ring.read = ring.write

\* the stored items, oldest first
RbContents(ring) ==
    [i \in 1..RbOccupied(ring) |-> ring.slots[(ring.read + i - 1) % ring.capacity]]

\* mutants of the ring buffer operations
try_push_Overwrite(ring, item) ==
    IF RbIsFull(ring)
    THEN [ok |-> FALSE,
          ring |-> [ring EXCEPT !.slots[(ring.write + ring.capacity - 1) % ring.capacity] = item]]
    ELSE [ok |-> TRUE,
          ring |-> [ring EXCEPT !.slots[ring.write % ring.capacity] = item,
                                !.write = (ring.write + 1) % (2 * ring.capacity)]]

\* Producer::try_push: ok and the ring afterwards
try_push(ring, item) ==
    IF RbIsFull(ring) THEN [ok |-> FALSE, ring |-> ring]
    ELSE [ok |-> TRUE,
          ring |-> [ring EXCEPT !.slots[ring.write % ring.capacity] = item,
                                !.write = (ring.write + 1) % (2 * ring.capacity)]]

\* Consumer::try_pop: some (a value was returned), the value, the ring afterwards
try_pop(ring) ==
    IF RbIsEmpty(ring) THEN [some |-> FALSE, item |-> Vacant, ring |-> ring]
    ELSE [some |-> TRUE, item |-> ring.slots[ring.read % ring.capacity],
          ring |-> [ring EXCEPT !.slots[ring.read % ring.capacity] = Vacant,
                                !.read = (ring.read + 1) % (2 * ring.capacity)]]

\* ---- initial state ----
ThreadNone ==
    [pc |-> "none", exit |-> "none", resample |-> FALSE, todo |-> 0,
     frame |-> 0, queued |-> 0, overflow_counter |-> 0, warnings |-> 0]

RouterNew == [running |-> FALSE, loopback |-> NoRoute, output_stream |-> NoRoute]
CtlIdle == [pc |-> "idle", op |-> "none", loopback |-> NoRoute]
CbIdle == [pc |-> "idle", n |-> 0, data |-> <<>>, taken |-> 0]
HistNone ==
    [spawned |-> 0,
     frames |-> 0,
     attempts |-> [t \in RouteIds |-> 0],
     pushed |-> [t \in RouteIds |-> <<>>],
     popped |-> [t \in RouteIds |-> <<>>],
     joined |-> [t \in RouteIds |-> FALSE],
     result |-> [t \in RouteIds |-> "none"],
     last_start |-> "none"]

RtInit ==
    /\ router = RouterNew
    /\ ctl = CtlIdle
    /\ thr = [t \in RouteIds |-> ThreadNone]
    /\ lbRunning = [t \in RouteIds |-> FALSE]
    /\ rb = [t \in RouteIds |-> HeapRb_new(RbCapacity)]
    /\ cb = CbIdle
    /\ hist = HistNone

Alive(t) == thr[t].pc \notin {"none", "exited"}

\* ---- control surface: AudioRouter::stop and AudioRouter::start_loopback ----
\* AudioRouter::stop up to the join: running.store(false), self.loopback.take()
\* and, in LoopbackCapture::stop, running.store(false) and capture_thread.take().
\* start_loopback begins with the same self.stop().
RouterStopSignal(op) ==
    /\ ctl.pc = "idle"
    /\ router' = [router EXCEPT !.running = FALSE, !.loopback = NoRoute]
    /\ lbRunning' = IF router.loopback # NoRoute
                    THEN [lbRunning EXCEPT ![router.loopback] = FALSE]
                    ELSE lbRunning
    /\ ctl' = [pc |-> IF router.loopback # NoRoute THEN "join" ELSE "drop",
               op |-> op, loopback |-> router.loopback]
    /\ hist' = [hist EXCEPT !.last_start = "none"]
    /\ UNCHANGED <<thr, rb, cb, chVars, dlVars, cpVars, mtVars, dcVars, lvVars, pcmVars, apVars>>

CallStop == RouterStopSignal("stop")

CallStartLoopback ==
    /\ hist.spawned < MaxRoutes
    /\ RouterStopSignal("start")

\* handle.join() returns once the thread has ended
JoinReturnsAtOnce(t) == TRUE

JoinReturns(t) == thr[t].pc = "exited"

\* LoopbackCapture::stop: let _ = handle.join()
LoopbackStopJoin ==
    /\ ctl.pc = "join"
    /\ JoinReturns(ctl.loopback)
    /\ hist' = [hist EXCEPT !.joined[ctl.loopback] = TRUE]
    /\ ctl' = [ctl EXCEPT !.pc = "drop"]
    /\ UNCHANGED <<router, thr, lbRunning, rb, cb, chVars, dlVars, cpVars, mtVars, dcVars, lvVars, pcmVars, apVars>>

\* AudioRouter::stop: self.output_stream.take() and drop(stream); dropping the
\* stream ends its callback thread, so no callback is under way afterwards.
\* Then stop returns, or start_loopback goes on.
RouterStopDrop ==
    /\ ctl.pc = "drop"
    /\ cb.pc = "idle"
    /\ router' = [router EXCEPT !.output_stream = NoRoute]
    /\ ctl' = IF ctl.op = "stop" THEN CtlIdle
              ELSE [pc |-> "setup", op |-> "start", loopback |-> NoRoute]
    /\ UNCHANGED <<thr, lbRunning, rb, cb, hist, chVars, dlVars, cpVars, mtVars, dcVars, lvVars, pcmVars, apVars>>

StartOutcomes ==
    {"output_device_not_found", "output_config_error", "build_stream_error",
     "play_error", "ok"}

\* start_loopback after its self.stop(): find_output_device, default_output_config,
\* HeapRb::new and split, running.store(true), LoopbackCapture::new and start
\* (stop of the new capture, running.store(true), thread::spawn),
\* build_output_stream, play, and the two assignments.  On an error after the
\* spawn the local LoopbackCapture is dropped (it has no Drop impl: the thread
\* is detached and its running flag stays true) and so is the consumer.
RouterStartSetup ==
    /\ ctl.pc = "setup"
    /\ \E outcome \in StartOutcomes :
         IF outcome \in {"output_device_not_found", "output_config_error"}
         THEN /\ hist' = [hist EXCEPT !.last_start = "err"]
              /\ UNCHANGED <<router, thr, lbRunning, rb>>
         ELSE LET t == hist.spawned + 1
                  res == IF outcome = "ok" THEN "ok" ELSE "err"
              IN  /\ rb' = [rb EXCEPT ![t] = HeapRb_new(RbCapacity)]
                  /\ lbRunning' = [lbRunning EXCEPT ![t] = TRUE]
                  /\ thr' = [thr EXCEPT ![t].pc = "setup"]
                  /\ router' = IF outcome = "ok"
                               THEN [running |-> TRUE, loopback |-> t, output_stream |-> t]
                               ELSE [router EXCEPT !.running = TRUE]
                  /\ hist' = [hist EXCEPT !.spawned = t, !.result[t] = res,
                                          !.last_start = res]
    /\ ctl' = CtlIdle
    /\ UNCHANGED <<cb, chVars, dlVars, cpVars, mtVars, dcVars, lvVars, pcmVars, apVars>>

\* ---- capture thread: capture_loop ----
\* Setup: CoInitializeEx, find_device_by_name, Activate, GetMixFormat, Initialize,
\* CreateEventW, SetEventHandle, GetService, SincFixedIn::new, client.Start.  Any
\* of them failing returns the error from capture_loop: the thread logs it and ends.
CaptureSetup(t) ==
    /\ thr[t].pc = "setup"
    /\ \/ thr' = [thr EXCEPT ![t].pc = "exited", ![t].exit = "setup_err"]
       \/ \E needs_resample \in BOOLEAN :
             thr' = [thr EXCEPT ![t].pc = "top", ![t].resample = needs_resample]
    /\ UNCHANGED <<router, ctl, lbRunning, rb, cb, hist, chVars, dlVars, cpVars, mtVars, dcVars, lvVars, pcmVars, apVars>>

\* while running.load(): the parameter poll and WaitForSingleObject(event, 100);
\* a timeout re-loops, a signalled event enters the drain loop.  When the flag
\* reads false the loop ends and capture_loop returns.
CaptureLoopTop(t) ==
    /\ thr[t].pc = "top"
    /\ IF lbRunning[t]
       THEN \E signalled \in BOOLEAN :
               thr' = [thr EXCEPT ![t].pc = IF signalled THEN "drain" ELSE "top"]
       ELSE thr' = [thr EXCEPT ![t].pc = "exited", ![t].exit = "stopped"]
    /\ UNCHANGED <<router, ctl, lbRunning, rb, cb, hist, chVars, dlVars, cpVars, mtVars, dcVars, lvVars, pcmVars, apVars>>

\* GetBuffer: an error or zero frames leaves the drain loop; otherwise the buffer
\* is decoded and routed (bytes_to_f32, process_channels) into `frames` stereo
\* frames (none when the sample width is not 2, 3 or 4 bytes), which go to the
\* resampler queues or straight to the push loop.
CaptureGetBuffer(t) ==
    /\ thr[t].pc = "drain"
    /\ \/ thr' = [thr EXCEPT ![t].pc = "top"] /\ UNCHANGED hist
       \/ \E frames \in BufFrameCounts :
            /\ hist.frames + frames <= MaxFrames
            /\ hist' = [hist EXCEPT !.frames = @ + frames]
            /\ thr' = [thr EXCEPT
                   ![t].queued = IF thr[t].resample THEN @ + frames ELSE @,
                   ![t].todo = IF thr[t].resample THEN 0 ELSE frames,
                   ![t].pc = IF thr[t].resample THEN "rs"
                             ELSE IF frames > 0 THEN "push_l" ELSE "release"]
    /\ UNCHANGED <<router, ctl, lbRunning, rb, cb, chVars, dlVars, cpVars, mtVars, dcVars, lvVars, pcmVars, apVars>>

\* while resample_input[0].len() >= chunk_size: drain one chunk from each queue,
\* rs.process; on Ok the resampled frames go to the push loop, on Err nothing does.
CaptureResample(t) ==
    /\ thr[t].pc = "rs"
    /\ IF thr[t].queued >= ChunkSize
       THEN \/ thr' = [thr EXCEPT ![t].queued = @ - ChunkSize]
            \/ \E frames \in RsOutFrames :
                  thr' = [thr EXCEPT ![t].queued = @ - ChunkSize, ![t].todo = frames,
                                     ![t].pc = "rs_push_l"]
       ELSE thr' = [thr EXCEPT ![t].pc = "release"]
    /\ UNCHANGED <<router, ctl, lbRunning, rb, cb, hist, chVars, dlVars, cpVars, mtVars, dcVars, lvVars, pcmVars, apVars>>

WarnDue(counter) == counter = 1 \/ counter % LogEvery = 0

\* producer.try_push(l) of either path: on failure overflow_counter += 1 and the
\* throttled warning.
CapturePushLeft(t) ==
    /\ thr[t].pc \in {"push_l", "rs_push_l"}
    /\ LET res == try_push(rb[t], <<thr[t].frame + 1, "L">>)
           counter == thr[t].overflow_counter + 1
       IN  /\ rb' = [rb EXCEPT ![t] = res.ring]
           /\ hist' = [hist EXCEPT
                  !.attempts[t] = @ + 1,
                  !.pushed[t] = IF res.ok THEN Append(@, <<thr[t].frame + 1, "L">>) ELSE @]
           /\ thr' = [thr EXCEPT
                  ![t].pc = IF thr[t].pc = "push_l" THEN "push_r" ELSE "rs_push_r",
                  ![t].overflow_counter = IF res.ok THEN @ ELSE counter,
                  ![t].warnings = IF ~res.ok /\ WarnDue(counter) THEN @ + 1 ELSE @]
    /\ UNCHANGED <<router, ctl, lbRunning, cb, chVars, dlVars, cpVars, mtVars, dcVars, lvVars, pcmVars, apVars>>

\* the frame is done: next frame of the batch, or back to the chunk test
\* (resampling path) or on to ReleaseBuffer (direct path)
AfterFrame(t, counter) ==
    [thr EXCEPT
        ![t].frame = @ + 1,
        ![t].todo = @ - 1,
        ![t].overflow_counter = counter,
        ![t].pc = IF thr[t].todo > 1
                  THEN (IF thr[t].pc = "push_r" THEN "push_l" ELSE "rs_push_l")
                  ELSE (IF thr[t].pc = "push_r" THEN "release" ELSE "rs")]

\* direct path: let _ = producer.try_push(r)
CapturePushRightDirect(t) ==
    /\ thr[t].pc = "push_r"
    /\ LET res == try_push(rb[t], <<thr[t].frame + 1, "R">>)
       IN  /\ rb' = [rb EXCEPT ![t] = res.ring]
           /\ hist' = [hist EXCEPT
                  !.attempts[t] = @ + 1,
                  !.pushed[t] = IF res.ok THEN Append(@, <<thr[t].frame + 1, "R">>) ELSE @]
           /\ thr' = AfterFrame(t, thr[t].overflow_counter)
    /\ UNCHANGED <<router, ctl, lbRunning, cb, chVars, dlVars, cpVars, mtVars, dcVars, lvVars, pcmVars, apVars>>

\* resampling path: if producer.try_push(r).is_err() { overflow_counter += 1 }
CapturePushRightResampled(t) ==
    /\ thr[t].pc = "rs_push_r"
    /\ LET res == try_push(rb[t], <<thr[t].frame + 1, "R">>)
       IN  /\ rb' = [rb EXCEPT ![t] = res.ring]
           /\ hist' = [hist EXCEPT
                  !.attempts[t] = @ + 1,
                  !.pushed[t] = IF res.ok THEN Append(@, <<thr[t].frame + 1, "R">>) ELSE @]
           /\ thr' = AfterFrame(t, IF res.ok THEN thr[t].overflow_counter
                                   ELSE thr[t].overflow_counter + 1)
    /\ UNCHANGED <<router, ctl, lbRunning, cb, chVars, dlVars, cpVars, mtVars, dcVars, lvVars, pcmVars, apVars>>

\* capture_client.ReleaseBuffer(frames_available)?: an error returns from
\* capture_loop at once (the thread ends), otherwise the drain loop goes on.
CaptureRelease(t) ==
    /\ thr[t].pc = "release"
    /\ \/ thr' = [thr EXCEPT ![t].pc = "drain"]
       \/ thr' = [thr EXCEPT ![t].pc = "exited", ![t].exit = "fatal"]
    /\ UNCHANGED <<router, ctl, lbRunning, rb, cb, hist, chVars, dlVars, cpVars, mtVars, dcVars, lvVars, pcmVars, apVars>>

\* ---- render callback of the output stream ----
\* the audio subsystem calls the closure with a buffer of n samples
CallbackBegin ==
    /\ router.output_stream # NoRoute
    /\ cb.pc = "idle"
    /\ \E n \in CbSizes : cb' = [pc |-> "fill", n |-> n, data |-> <<>>, taken |-> 0]
    /\ UNCHANGED <<router, ctl, thr, lbRunning, rb, hist, chVars, dlVars, cpVars, mtVars, dcVars, lvVars, pcmVars, apVars>>

\* mutant of the slot assignment: stop filling when the ring is empty
CallbackValue_NoSilence(res) == res.item

\* *sample = consumer.try_pop().unwrap_or(0.0)
CallbackValue(res) == IF res.some THEN res.item ELSE Silence

\* one iteration of "for sample in data.iter_mut()"
CallbackSlot ==
    /\ cb.pc = "fill"
    /\ LET s == router.output_stream
           res == try_pop(rb[s])
           data == Append(cb.data, CallbackValue(res))
       IN  /\ rb' = [rb EXCEPT ![s] = res.ring]
           /\ hist' = [hist EXCEPT !.popped[s] = IF res.some THEN Append(@, res.item) ELSE @]
           /\ cb' = [cb EXCEPT !.data = data,
                               !.taken = IF res.some THEN @ + 1 ELSE @,
                               !.pc = IF Len(data) = cb.n THEN "idle" ELSE "fill"]
    /\ UNCHANGED <<router, ctl, thr, lbRunning, chVars, dlVars, cpVars, mtVars, dcVars, lvVars, pcmVars, apVars>>

RtNext ==
    \/ CallStop
    \/ CallStartLoopback
    \/ LoopbackStopJoin
    \/ RouterStopDrop
    \/ RouterStartSetup
    \/ \E t \in RouteIds : CaptureSetup(t)
    \/ \E t \in RouteIds : CaptureLoopTop(t)
    \/ \E t \in RouteIds : CaptureGetBuffer(t)
    \/ \E t \in RouteIds : CaptureResample(t)
    \/ \E t \in RouteIds : CapturePushLeft(t)
    \/ \E t \in RouteIds : CapturePushRightDirect(t)
    \/ \E t \in RouteIds : CapturePushRightResampled(t)
    \/ \E t \in RouteIds : CaptureRelease(t)
    \/ CallbackBegin
    \/ CallbackSlot

(***************************************************************************)
(* SharedLevels (dsp/mod.rs): two levels in dB, each kept in an AtomicU32  *)
(* as (dB + 60) * 10.  An argument of update is a finite f32 (sign,        *)
(* significand, exponent as for the LevelMeter), an infinity or NaN.       *)
(***************************************************************************)
LvFin(s, m, x) == [k |-> "fin", v |-> [s |-> s, m |-> m, x |-> x]]
LvInf(s) == [k |-> "inf", v |-> [s |-> s, m |-> 0, x |-> 0]]
LvNaN == [k |-> "nan", v |-> BZero]
LvNone == [k |-> "none", v |-> BZero]

B_60 == [s |-> 1, m |-> 15728640, x |-> -18]
B_10 == [s |-> 1, m |-> 10485760, x |-> -20]
B_600 == [s |-> 1, m |-> 9830400, x |-> -14]

\* the dB values update is called with: -60, -59.95, -45.05, -30.0625, -12.34,
\* -6.0206, -0.3, 0 (each the nearest f32), and -100, 5.5, -inf, +inf, NaN
LevelArgs ==
    { LvFin(-1, 15728640, -18), LvFin(-1, 15715533, -18), LvFin(-1, 11809587, -18),
      LvFin(-1, 15761408, -19), LvFin(-1, 12939428, -20), LvFin(-1, 12626113, -21),
      LvFin(-1, 10066330, -25), LvFin(1, 0, 0),
      LvFin(-1, 13107200, -17), LvFin(1, 11534336, -21), LvInf(-1), LvInf(1), LvNaN }

\* mutant of the encoding: the clamp is left out (the cast alone saturates at 0)
LevelToStored_NoClamp(db) ==
    IF db.k = "nan" THEN 0
    ELSE IF db.k = "inf" THEN (IF db.v.s = 1 THEN 2147483647 ELSE 0)
    ELSE LET t == BMul(BAdd(db.v, B_60), B_10)
         IN  IF t.s = -1 THEN 0 ELSE BTrunc(t)

\* ((db + 60.0) * 10.0).clamp(0.0, 600.0) as u32: NaN stays NaN through the
\* arithmetic and the clamp and casts to 0
LevelToStored(db) ==
    IF db.k = "nan" THEN 0
    ELSE IF db.k = "inf" THEN (IF db.v.s = 1 THEN 600 ELSE 0)
    ELSE LET t == BMul(BAdd(db.v, B_60), B_10)
         IN  IF BGt(BZero, t) THEN 0
             ELSE IF BGt(t, B_600) THEN 600
             ELSE BTrunc(t)

\* stored as f32 / 10.0 - 60.0
StoredToLevel(stored) == BSub(BDivInt(BFromInt(stored), 10), B_60)

SharedLevels_new == [left_db |-> 0, right_db |-> 0]

SharedLevels_update(self, left_db, right_db) ==
    [left_db |-> LevelToStored(left_db), right_db |-> LevelToStored(right_db)]

SharedLevels_get(self) == <<StoredToLevel(self.left_db), StoredToLevel(self.right_db)>>

LvIdle == [shared |-> SharedLevels_new, args |-> <<LvNone, LvNone>>]

\* ---- update and get on two threads ----
\* update is two stores and get two loads, all Ordering::Relaxed, on two
\* separate atomics; the steps of the two calls interleave.  (Relaxed
\* ordering allows further outcomes; the interleavings are among them.)
MaxLevelUpdates == 2    \* update calls of the capture thread
MaxLevelGets == 2       \* get calls of the other thread

\* -60, -12.34 and 0 dB
LevelsPublished == {LvFin(-1, 15728640, -18), LvFin(-1, 12939428, -20), LvFin(1, 0, 0)}

LvtNew ==
    [shared |-> SharedLevels_new,
     upd |-> [pc |-> "idle", right |-> 0, calls |-> 0],
     get |-> [pc |-> "idle", left |-> 0, calls |-> 0],
     published |-> {}, returned |-> <<>>]

\* no thread has the levels
LvtIdle == [published |-> {}]
LvtInit == lvt = LvtNew

LvInit == levels = LvIdle /\ lvt = LvtIdle

\* update: both values are computed, then self.left_db.store(left, Relaxed)
UpdateStoreLeft ==
    /\ lvt.upd.pc = "idle"
    /\ lvt.upd.calls < MaxLevelUpdates
    /\ \E left_db \in LevelsPublished, right_db \in LevelsPublished :
          LET stored == SharedLevels_update(lvt.shared, left_db, right_db)
          IN  lvt' = [lvt EXCEPT !.shared.left_db = stored.left_db,
                                 !.upd = [pc |-> "store_right", right |-> stored.right_db,
                                          calls |-> @.calls + 1],
                                 !.published = @ \cup {stored}]
    /\ UNCHANGED <<levels, chVars, dlVars, rtVars, cpVars, mtVars, dcVars, pcmVars, apVars>>

\* self.right_db.store(right, Relaxed), and update returns
UpdateStoreRight ==
    /\ lvt.upd.pc = "store_right"
    /\ lvt' = [lvt EXCEPT !.shared.right_db = lvt.upd.right,
                           !.upd.pc = "idle", !.upd.right = 0]
    /\ UNCHANGED <<levels, chVars, dlVars, rtVars, cpVars, mtVars, dcVars, pcmVars, apVars>>

\* get: self.left_db.load(Relaxed)
GetLoadLeft ==
    /\ lvt.get.pc = "idle"
    /\ lvt.get.calls < MaxLevelGets
    /\ lvt' = [lvt EXCEPT !.get = [pc |-> "load_right", left |-> lvt.shared.left_db,
                                    calls |-> @.calls + 1]]
    /\ UNCHANGED <<levels, chVars, dlVars, rtVars, cpVars, mtVars, dcVars, pcmVars, apVars>>

\* self.right_db.load(Relaxed), and get returns the pair
GetLoadRight ==
    /\ lvt.get.pc = "load_right"
    /\ lvt' = [lvt EXCEPT !.returned = SharedLevels_get([left_db |-> lvt.get.left,
                                                          right_db |-> lvt.shared.right_db]),
                           !.get.pc = "idle", !.get.left = 0]
    /\ UNCHANGED <<levels, chVars, dlVars, rtVars, cpVars, mtVars, dcVars, pcmVars, apVars>>

LvtNext == UpdateStoreLeft \/ UpdateStoreRight \/ GetLoadLeft \/ GetLoadRight

LevelsUpdate ==
    /\ \E left_db \in LevelArgs, right_db \in LevelArgs :
          levels' = [shared |-> SharedLevels_update(levels.shared, left_db, right_db),
                     args |-> <<left_db, right_db>>]
    /\ UNCHANGED <<lvt, chVars, dlVars, rtVars, cpVars, mtVars, dcVars, pcmVars, apVars>>

LvNext == LevelsUpdate

(***************************************************************************)
(* DspChain (dsp/mod.rs): two delay lines, two three-band EQs, the level   *)
(* meter's input and the publication to SharedLevels.  delay_ms, the EQ    *)
(* gains and the sample-count arithmetic are bit-exact f32.  A sample is   *)
(* an integer, as for the DelayBuffer.  The coefficients of a Biquad come  *)
(* from the platform's powf, sin and cos: a Biquad keeps the design (kind, *)
(* gain) they are computed from in their place, and the sample it returns  *)
(* is its input plus FilterMark.  The meter keeps the pair it was fed      *)
(* last; the dB pair get_rms_db returns (log10, sqrt) is any of            *)
(* RmsDbTried.  Sample rates are scaled down so that the 200 ms of a delay *)
(* line are 2 or 3 samples.                                                *)
(***************************************************************************)
PublishEvery == 256     \* process calls between two publications of the levels
MaxChainCalls == 3      \* process calls of a short run
MaxChainSets == 3       \* parameter changes of a short run
LongRunSets == 1        \* parameter changes before the first call of a long run
target_sample_rate == 10
FilterMark == 10000
SampleRates == {target_sample_rate, 15}

\* the f32 nearest to 0.2, 0.1, 6.05; 170, 250, 6 and -3
B_0_2 == [s |-> 1, m |-> 13421773, x |-> -26]
B_0_1 == [s |-> 1, m |-> 13421773, x |-> -27]
B_6_05 == [s |-> 1, m |-> 12687770, x |-> -21]
B_170 == BFromInt(170)
B_250 == BFromInt(250)
B_6 == BFromInt(6)
B_m3 == BNeg(BFromInt(3))

DelayMsTried == {BZero, B_170, B_250}
EqGainsTried == {<<BZero, BZero, BZero>>, <<B_6, BZero, B_m3>>, <<B_6_05, BZero, B_m3>>}
RmsDbTried ==
    { <<LvFin(-1, 15728640, -18), LvFin(-1, 15728640, -18)>>,
      <<LvFin(-1, 12939428, -20), LvFin(1, 11534336, -21)>> }

\* Biquad::low_shelf, ::peaking, ::high_shelf: new coefficients, cleared history
Biquad_design(kind, gain_db) ==
    [design |-> <<kind, gain_db>>, x1 |-> 0, x2 |-> 0, y1 |-> 0, y2 |-> 0]

Biquad_process(self, input) ==
    LET output == input + FilterMark
    IN  [output |-> output,
         self |-> [self EXCEPT !.x2 = self.x1, !.x1 = input,
                               !.y2 = self.y1, !.y1 = output]]

set_gains(low_db, mid_db, high_db) ==
    [low_shelf |-> Biquad_design("low_shelf", low_db),
     mid_peak |-> Biquad_design("peaking", mid_db),
     high_shelf |-> Biquad_design("high_shelf", high_db)]

ThreeBandEq_new == set_gains(BZero, BZero, BZero)

ThreeBandEq_process(self, sample) ==
    LET low == Biquad_process(self.low_shelf, sample)
        mid == Biquad_process(self.mid_peak, low.output)
        high == Biquad_process(self.high_shelf, mid.output)
    IN  [output |-> high.output,
         self |-> [low_shelf |-> low.self, mid_peak |-> mid.self, high_shelf |-> high.self]]

\* DspChain::new; strength is upmixer.strength (Upmixer::new)
DspChain_new(sample_rate) ==
    LET max_delay == BTrunc(BMul(BFromInt(sample_rate), B_0_2))
    IN  [delay_l |-> DelayBuffer_new(max_delay), delay_r |-> DelayBuffer_new(max_delay),
         eq_l |-> ThreeBandEq_new, eq_r |-> ThreeBandEq_new,
         meter |-> <<0, 0>>, delay_ms |-> BZero,
         eq_enabled |-> FALSE, upmix_enabled |-> FALSE, strength |-> Fin(4, 0),
         sample_rate |-> sample_rate, update_counter |-> 0,
         eq_cache |-> <<BZero, BZero, BZero>>]

\* the chain of the capture thread
ChainNew == DspChain_new(target_sample_rate)

\* (self.sample_rate as f32 * ms / 1000.0) as usize
DelayMsToSamples(sample_rate, ms) ==
    BTrunc(BDivInt(BMul(BFromInt(sample_rate), ms), 1000))

\* the sample counts for the rates and delays used, computed once
DelaySamplesOf ==
    [sample_rate \in SampleRates, ms \in DelayMsTried |-> DelayMsToSamples(sample_rate, ms)]

set_delay_ms(self, ms) ==
    LET samples == DelaySamplesOf[self.sample_rate, ms]
    IN  [self EXCEPT !.delay_ms = ms,
                     !.delay_l = set_delay_samples(@, samples),
                     !.delay_r = set_delay_samples(@, samples)]

\* mutant of DspChain::set_eq: the filters are rebuilt on every call
set_eq_Always(chain, low_db, mid_db, high_db) ==
    [chain EXCEPT !.eq_l = set_gains(low_db, mid_db, high_db),
                  !.eq_r = set_gains(low_db, mid_db, high_db),
                  !.eq_cache = <<low_db, mid_db, high_db>>]

\* DspChain::set_eq: the filters are rebuilt and the gains cached when one gain
\* differs from its cached value by more than 0.1
set_eq(chain, low_db, mid_db, high_db) ==
    IF \/ BGt(BAbs(BSub(low_db, chain.eq_cache[1])), B_0_1)
       \/ BGt(BAbs(BSub(mid_db, chain.eq_cache[2])), B_0_1)
       \/ BGt(BAbs(BSub(high_db, chain.eq_cache[3])), B_0_1)
    THEN [chain EXCEPT !.eq_l = set_gains(low_db, mid_db, high_db),
                       !.eq_r = set_gains(low_db, mid_db, high_db),
                       !.eq_cache = <<low_db, mid_db, high_db>>]
    ELSE chain

\* mutant of DspChain::process: the levels are published when the counter
\* has passed 256
DspChain_process_Late(self, left, right) ==
    LET el == IF self.eq_enabled THEN ThreeBandEq_process(self.eq_l, left)
              ELSE [output |-> left, self |-> self.eq_l]
        er == IF self.eq_enabled THEN ThreeBandEq_process(self.eq_r, right)
              ELSE [output |-> right, self |-> self.eq_r]
        l == DelayBuffer_process(self.delay_l, el.output)
        r == DelayBuffer_process(self.delay_r, er.output)
        counter == self.update_counter + 1
        publish == counter > PublishEvery
    IN  [output |-> <<l.output, r.output>>, publish |-> publish,
         self |-> [self EXCEPT !.eq_l = el.self, !.eq_r = er.self,
                               !.delay_l = l.self, !.delay_r = r.self,
                               !.meter = <<l.output, r.output>>,
                               !.update_counter = IF publish THEN 0 ELSE counter]]

\* DspChain::process: the pair returned, the chain afterwards, and whether
\* this call publishes the meter's levels
DspChain_process(self, left, right) ==
    LET el == IF self.eq_enabled THEN ThreeBandEq_process(self.eq_l, left)
              ELSE [output |-> left, self |-> self.eq_l]
        er == IF self.eq_enabled THEN ThreeBandEq_process(self.eq_r, right)
              ELSE [output |-> right, self |-> self.eq_r]
        l == DelayBuffer_process(self.delay_l, el.output)
        r == DelayBuffer_process(self.delay_r, er.output)
        counter == self.update_counter + 1
        publish == counter >= PublishEvery
    IN  [output |-> <<l.output, r.output>>, publish |-> publish,
         self |-> [self EXCEPT !.eq_l = el.self, !.eq_r = er.self,
                               !.delay_l = l.self, !.delay_r = r.self,
                               !.meter = <<l.output, r.output>>,
                               !.update_counter = IF publish THEN 0 ELSE counter]]

\* ---- the chain driven by its caller ----
\* A short run interleaves parameter changes and process calls; a long run
\* changes parameters before its first call and then runs past two
\* publications.  The n-th call processes the frame (2n - 1, 2n).
ChainShapes == {"short", "long"}
LongRunCalls == 2 * PublishEvery + 2

\* no chain has been built
DcIdle == [sample_rate |-> 0]
ChlogNew(shape) ==
    [shape |-> shape, calls |-> 0, sets |-> 0, published |-> <<>>,
     last |-> [op |-> "new", args |-> <<>>, out |-> <<>>]]
ChlogIdle == ChlogNew("short")

DcInit ==
    /\ \E sample_rate \in SampleRates : dc = DspChain_new(sample_rate)
    /\ \E shape \in ChainShapes : chlog = ChlogNew(shape)

MaySet ==
    IF chlog.shape = "short" THEN chlog.sets < MaxChainSets
    ELSE chlog.calls = 0 /\ chlog.sets < LongRunSets

MayProcess ==
    chlog.calls < (IF chlog.shape = "short" THEN MaxChainCalls ELSE LongRunCalls)

Logged(op, args, out) ==
    [chlog EXCEPT !.sets = IF op = "process" THEN @ ELSE @ + 1,
                  !.calls = IF op = "process" THEN @ + 1 ELSE @,
                  !.last = [op |-> op, args |-> args, out |-> out]]

ChainSetDelayMs ==
    \E ms \in DelayMsTried :
        /\ MaySet
        /\ dc' = set_delay_ms(dc, ms)
        /\ chlog' = Logged("set_delay_ms", <<ms>>, <<>>)
        /\ UNCHANGED <<chVars, dlVars, rtVars, cpVars, mtVars, lvVars, pcmVars, apVars>>

\* delay_l and delay_r are public: set_delay_samples on one of them
ChainSetDelaySamples ==
    \E side \in {"l", "r"}, samples \in {1, 4} :
        /\ MaySet
        /\ dc' = IF side = "l"
                 THEN [dc EXCEPT !.delay_l = set_delay_samples(@, samples)]
                 ELSE [dc EXCEPT !.delay_r = set_delay_samples(@, samples)]
        /\ chlog' = Logged("set_delay_samples", <<samples>>, <<>>)
        /\ UNCHANGED <<chVars, dlVars, rtVars, cpVars, mtVars, lvVars, pcmVars, apVars>>

ChainSetEq ==
    \E gains \in EqGainsTried :
        /\ MaySet
        /\ dc' = set_eq(dc, gains[1], gains[2], gains[3])
        /\ chlog' = Logged("set_eq", gains, <<>>)
        /\ UNCHANGED <<chVars, dlVars, rtVars, cpVars, mtVars, lvVars, pcmVars, apVars>>

\* eq_enabled is a public field, written by the capture loop
ChainSetEqEnabled ==
    \E enabled \in BOOLEAN :
        /\ MaySet
        /\ dc' = [dc EXCEPT !.eq_enabled = enabled]
        /\ chlog' = Logged("eq_enabled", <<enabled>>, <<>>)
        /\ UNCHANGED <<chVars, dlVars, rtVars, cpVars, mtVars, lvVars, pcmVars, apVars>>

ChainProcess ==
    /\ MayProcess
    /\ LET n == chlog.calls + 1
           res == DspChain_process(dc, 2 * n - 1, 2 * n)
           log == Logged("process", <<2 * n - 1, 2 * n>>, res.output)
       IN  /\ dc' = res.self
           /\ IF res.publish
              THEN /\ chlog' = [log EXCEPT !.published = Append(@, n)]
                   /\ \E db \in RmsDbTried :
                         levels' = [shared |-> SharedLevels_update(levels.shared, db[1], db[2]),
                                    args |-> db]
              ELSE /\ chlog' = log
                   /\ UNCHANGED levels
    /\ UNCHANGED <<lvt, chVars, dlVars, rtVars, cpVars, mtVars, pcmVars, apVars>>

DcNext ==
    \/ ChainSetDelayMs
    \/ ChainSetDelaySamples
    \/ ChainSetEq
    \/ ChainSetEqEnabled
    \/ ChainProcess

(***************************************************************************)
(* One capture thread, statement by statement (audio/loopback.rs): the     *)
(* shared parameters behind their RwLocks, the guards each statement       *)
(* keeps, the device volume poll, and the stages a sample passes on its    *)
(* way to the push.  The ring buffer and the overflow counter are in the   *)
(* route machine above; here a push only records what is pushed.           *)
(***************************************************************************)
MaxCapFrames == 2       \* frames the capture source delivers in one run
MasterVolEvery == 5     \* the device volume is polled every 5th loop iteration

RouterLocks == {"volume", "swap_channels", "balance", "left_channel", "right_channel"}
DspLocks ==
    {"delay_ms", "eq_enabled", "eq_low", "eq_mid", "eq_high", "upmix_enabled",
     "upmix_strength", "master_volume", "sync_master_volume", "master_muted"}
Locks == RouterLocks \cup DspLocks

Range(seq) == {seq[i] : i \in 1..Len(seq)}

\* AudioRouter::new and DspConfig::new.  delay_ms and the EQ gains are
\* bit-exact f32 values.
CfgDefault ==
    [volume |-> One, swap_channels |-> FALSE, balance |-> Zero,
     left_channel |-> [source |-> "RL", volume |-> One, muted |-> FALSE],
     right_channel |-> [source |-> "RR", volume |-> One, muted |-> FALSE],
     delay_ms |-> BZero, eq_enabled |-> FALSE,
     eq_low |-> BZero, eq_mid |-> BZero, eq_high |-> BZero,
     upmix_enabled |-> FALSE, upmix_strength |-> Half,
     master_volume |-> One, sync_master_volume |-> TRUE, master_muted |-> FALSE]

\* the DspConfig values LoopbackCapture::start is exercised with
DspConfigs ==
    { [delay_ms |-> BZero, eq_enabled |-> FALSE,
       eq_low |-> BZero, eq_mid |-> BZero, eq_high |-> BZero,
       upmix_enabled |-> FALSE, upmix_strength |-> Half, sync_master_volume |-> TRUE],
      [delay_ms |-> B_170, eq_enabled |-> TRUE,
       eq_low |-> B_6, eq_mid |-> BZero, eq_high |-> B_m3,
       upmix_enabled |-> TRUE, upmix_strength |-> Fin(12, 0), sync_master_volume |-> TRUE],
      [delay_ms |-> BZero, eq_enabled |-> FALSE,
       eq_low |-> BZero, eq_mid |-> BZero, eq_high |-> BZero,
       upmix_enabled |-> FALSE, upmix_strength |-> Half, sync_master_volume |-> FALSE] }

WithDspConfig(c, d) ==
    [c EXCEPT !.delay_ms = d.delay_ms, !.eq_enabled = d.eq_enabled, !.eq_low = d.eq_low,
              !.eq_mid = d.eq_mid, !.eq_high = d.eq_high,
              !.upmix_enabled = d.upmix_enabled, !.upmix_strength = d.upmix_strength,
              !.sync_master_volume = d.sync_master_volume]

\* what the endpoint volume interface reports
DeviceVolumes == {Half}

\* ---- AudioRouter setters: each takes one write guard for its assignment(s) ----
Setters ==
    {"set_volume", "set_swap_channels", "set_balance", "set_left_channel",
     "set_right_channel", "set_left_source", "set_right_source", "set_left_muted",
     "set_right_muted", "set_left_volume", "set_right_volume"}

SetterLock(fn) ==
    CASE fn = "set_volume" -> "volume"
      [] fn = "set_swap_channels" -> "swap_channels"
      [] fn = "set_balance" -> "balance"
      [] fn \in {"set_left_channel", "set_left_source", "set_left_muted", "set_left_volume"}
            -> "left_channel"
      [] OTHER -> "right_channel"

\* the setters a run calls: one for each lock
SettersTried ==
    {"set_volume", "set_swap_channels", "set_balance", "set_left_channel",
     "set_right_muted"}

\* the argument each setter is called with
SetterChannelConfig == [source |-> "FL", volume |-> Half, muted |-> TRUE]

\* the parameters after the setter's assignment
ApplySetter(fn, c) ==
    CASE fn = "set_volume" -> [c EXCEPT !.volume = Half]
      [] fn = "set_swap_channels" -> [c EXCEPT !.swap_channels = TRUE]
      [] fn = "set_balance" -> [c EXCEPT !.balance = FClamp(Fin(2, 0), FNeg(One), One)]
      [] fn = "set_left_channel" -> [c EXCEPT !.left_channel = SetterChannelConfig]
      [] fn = "set_right_channel" -> [c EXCEPT !.right_channel = SetterChannelConfig]
      [] fn = "set_left_source" -> [c EXCEPT !.left_channel.source = "FR"]
      [] fn = "set_right_source" -> [c EXCEPT !.right_channel.source = "FL"]
      [] fn = "set_left_muted" -> [c EXCEPT !.left_channel.muted = TRUE]
      [] fn = "set_right_muted" -> [c EXCEPT !.right_channel.muted = TRUE]
      [] fn = "set_left_volume" -> [c EXCEPT !.left_channel.volume = Half]
      [] fn = "set_right_volume" -> [c EXCEPT !.right_channel.volume = Half]

\* ---- initial state ----
\* the per-buffer locals before they are read
LocNone ==
    [vol |-> Zero, swap |-> FALSE, bal |-> Zero,
     left_ch |-> CfgDefault.left_channel, right_ch |-> CfgDefault.right_channel,
     master_vol |-> Zero, master_muted |-> FALSE, sync_master |-> FALSE,
     effective_vol |-> Zero, frames_available |-> 0]

\* the thread builds its chain during setup; before that there is none
ChainNone == [sample_rate |-> 0]

\* what is live once client.Start() has returned and the teardown after the
\* loop undoes: the started client (client.Stop), the event handle
\* (CloseHandle), the mix format (CoTaskMemFree), COM (CoUninitialize).
\* cap.live holds those not yet undone; cap.buffer is the frame count of the
\* capture buffer GetBuffer handed out and the device has not taken back.
StartedResources == {"client", "event", "format", "com"}

CapNone ==
    [pc |-> "none", exit |-> "none", endpoint_volume |-> FALSE, needs_resample |-> FALSE,
     master_vol_counter |-> 0, dsp_chain |-> ChainNone,
     polled_vol |-> Zero, polled_muted |-> FALSE, loc |-> LocNone, resample_input |-> <<<<>>, <<>>>>, todo |-> <<>>,
     buffer |-> 0, live |-> {}]

CctlNew == [pc |-> "idle", running |-> FALSE, fn |-> "-", called |-> FALSE, stopped |-> FALSE]

\* what the run has done so far; iter is the number of outer-loop iterations
\* begun, modulo MasterVolEvery, dev_read whether the iteration under way
\* has called the endpoint volume interface, dsp_writes the number of writes
\* to shared DSP parameters, and dirty whether one was made since the
\* iteration under way began
ClogNone ==
    [delivered |-> 0, buffers |-> 0, consumed |-> <<>>, pushed |-> {},
     iter |-> 0, dev_read |-> FALSE, dsp_writes |-> 0, dirty |-> FALSE]

CpInit ==
    /\ cfg = CfgDefault
    /\ held = [capture |-> <<>>, control |-> <<>>]
    /\ cap = CapNone
    /\ cctl = CctlNew
    /\ clog = ClogNone

\* ---- control surface ----
\* LoopbackCapture::start: stop() (nothing to join), running.store(true), spawn
LoopbackStart ==
    /\ cctl.pc = "idle" /\ cap.pc = "none"
    /\ \E d \in DspConfigs : cfg' = WithDspConfig(cfg, d)
    /\ cctl' = [cctl EXCEPT !.running = TRUE]
    /\ cap' = [cap EXCEPT !.pc = "setup"]
    /\ UNCHANGED <<held, clog, chVars, dlVars, rtVars, mtVars, dcVars, lvVars, pcmVars, apVars>>

\* a setter takes its write guard (one setter call in a run)
SetterBegin ==
    /\ cctl.pc = "idle" /\ ~cctl.called
    /\ \E fn \in SettersTried :
         /\ SetterLock(fn) \notin Range(held.capture)
         /\ held' = [held EXCEPT !.control = <<SetterLock(fn)>>]
         /\ cctl' = [cctl EXCEPT !.pc = "setter", !.fn = fn, !.called = TRUE]
    /\ UNCHANGED <<cfg, cap, clog, chVars, dlVars, rtVars, mtVars, dcVars, lvVars, pcmVars, apVars>>

\* the assignment, and the guard is dropped
SetterEnd ==
    /\ cctl.pc = "setter"
    /\ cfg' = ApplySetter(cctl.fn, cfg)
    /\ held' = [held EXCEPT !.control = <<>>]
    /\ cctl' = [cctl EXCEPT !.pc = "idle", !.fn = "-"]
    /\ UNCHANGED <<cap, clog, chVars, dlVars, rtVars, mtVars, dcVars, lvVars, pcmVars, apVars>>

\* LoopbackCapture::stop: running.store(false), capture_thread.take()
LoopbackStop ==
    /\ cctl.pc = "idle" /\ cap.pc # "none" /\ ~cctl.stopped
    /\ cctl' = [cctl EXCEPT !.pc = "join", !.running = FALSE]
    /\ UNCHANGED <<cfg, held, cap, clog, chVars, dlVars, rtVars, mtVars, dcVars, lvVars, pcmVars, apVars>>

\* let _ = handle.join()
LoopbackJoin ==
    /\ cctl.pc = "join"
    /\ cap.pc = "exited"
    /\ cctl' = [cctl EXCEPT !.pc = "idle", !.stopped = TRUE]
    /\ UNCHANGED <<cfg, held, cap, clog, chVars, dlVars, rtVars, mtVars, dcVars, lvVars, pcmVars, apVars>>

\* ---- capture thread: capture_loop ----
\* the lock guards the statement at pc creates, in order; they are temporaries
\* of the statement and live until the statement ends
CapPcLocks(pc) ==
    CASE pc = "poll_delay" -> <<"delay_ms">>
      [] pc = "poll_eq_enabled" -> <<"eq_enabled">>
      [] pc = "poll_set_eq" -> <<"eq_low", "eq_mid", "eq_high">>
      [] pc = "poll_upmix_enabled" -> <<"upmix_enabled">>
      [] pc = "poll_upmix_strength" -> <<"upmix_strength">>
      [] pc = "poll_sync" -> <<"sync_master_volume">>
      [] pc = "write_master_volume" -> <<"master_volume">>
      [] pc = "write_master_muted" -> <<"master_muted">>
      [] pc = "read_volume" -> <<"volume">>
      [] pc = "read_swap" -> <<"swap_channels">>
      [] pc = "read_balance" -> <<"balance">>
      [] pc = "read_left_channel" -> <<"left_channel">>
      [] pc = "read_right_channel" -> <<"right_channel">>
      [] pc = "read_master_volume" -> <<"master_volume">>
      [] pc = "read_master_muted" -> <<"master_muted">>
      [] pc = "read_sync_master" -> <<"sync_master_volume">>
      [] OTHER -> <<>>

\* every guard of the statement at pc has been taken
StmtReady(pc) == cap.pc = pc /\ held.capture = CapPcLocks(pc)

ReleaseGuards == held' = [held EXCEPT !.capture = <<>>]

\* setup up to client.Start(): an error returns from capture_loop (the thread
\* logs it and ends); otherwise the format decides whether to resample, and
\* the endpoint volume interface is there or not (Activate(..).ok()), and the
\* thread builds its chain (DspChain::new)
CapSetup ==
    /\ cap.pc = "setup"
    /\ \/ cap' = [cap EXCEPT !.pc = "exited", !.exit = "setup_err"]
       \/ \E ep \in BOOLEAN, rs \in BOOLEAN :
             cap' = [cap EXCEPT !.pc = "top", !.endpoint_volume = ep,
                                !.needs_resample = rs, !.dsp_chain = ChainNew,
                                !.live = StartedResources]
    /\ UNCHANGED <<cfg, held, cctl, clog, chVars, dlVars, rtVars, mtVars, dcVars, lvVars, pcmVars, apVars>>

\* mutant of the loop test: the flag is not looked at
LoopContinues_Always(running) == TRUE

\* while running.load(Ordering::Relaxed)
LoopContinues(running) == running

CapLoopTop ==
    /\ cap.pc = "top"
    /\ cap' = [cap EXCEPT !.pc = IF LoopContinues(cctl.running) THEN "poll_delay"
                                 ELSE "stop_client"]
    /\ clog' = IF LoopContinues(cctl.running)
               THEN [clog EXCEPT !.iter = (@ + 1) % MasterVolEvery, !.dev_read = FALSE,
                                 !.dirty = FALSE]
               ELSE clog
    /\ UNCHANGED <<cfg, held, cctl, chVars, dlVars, rtVars, mtVars, dcVars, lvVars, pcmVars, apVars>>

\* a read() or write() of the statement at pc returns its guard: a read waits
\* for a writer, a write for every other guard (only the control surface's
\* write guards can be in the way)
CapAcquire ==
    /\ Len(held.capture) < Len(CapPcLocks(cap.pc))
    /\ LET lock == CapPcLocks(cap.pc)[Len(held.capture) + 1]
       IN  /\ lock \notin Range(held.control)
           /\ held' = [held EXCEPT !.capture = Append(@, lock)]
    /\ UNCHANGED <<cfg, cap, cctl, clog, chVars, dlVars, rtVars, mtVars, dcVars, lvVars, pcmVars, apVars>>

\* let delay = *dsp_config.delay_ms.read(); if (delay - delay_ms).abs() > 0.1
\* { set_delay_ms(delay) }
CapPollDelay ==
    /\ StmtReady("poll_delay")
    /\ cap' = [cap EXCEPT
          !.dsp_chain = IF BGt(BAbs(BSub(cfg.delay_ms, @.delay_ms)), B_0_1)
                        THEN set_delay_ms(@, cfg.delay_ms) ELSE @,
          !.pc = "poll_eq_enabled"]
    /\ ReleaseGuards
    /\ UNCHANGED <<cfg, cctl, clog, chVars, dlVars, rtVars, mtVars, dcVars, lvVars, pcmVars, apVars>>

\* dsp_chain.eq_enabled = *dsp_config.eq_enabled.read(); if dsp_chain.eq_enabled
CapPollEqEnabled ==
    /\ StmtReady("poll_eq_enabled")
    /\ cap' = [cap EXCEPT !.dsp_chain.eq_enabled = cfg.eq_enabled,
                          !.pc = IF cfg.eq_enabled THEN "poll_set_eq"
                                 ELSE "poll_upmix_enabled"]
    /\ ReleaseGuards
    /\ UNCHANGED <<cfg, cctl, clog, chVars, dlVars, rtVars, mtVars, dcVars, lvVars, pcmVars, apVars>>

\* dsp_chain.set_eq(*eq_low.read(), *eq_mid.read(), *eq_high.read());
CapPollSetEq ==
    /\ StmtReady("poll_set_eq")
    /\ cap' = [cap EXCEPT
          !.dsp_chain = set_eq(@, cfg.eq_low, cfg.eq_mid, cfg.eq_high),
          !.pc = "poll_upmix_enabled"]
    /\ ReleaseGuards
    /\ UNCHANGED <<cfg, cctl, clog, chVars, dlVars, rtVars, mtVars, dcVars, lvVars, pcmVars, apVars>>

CapPollUpmixEnabled ==
    /\ StmtReady("poll_upmix_enabled")
    /\ cap' = [cap EXCEPT !.dsp_chain.upmix_enabled = cfg.upmix_enabled,
                          !.pc = "poll_upmix_strength"]
    /\ ReleaseGuards
    /\ UNCHANGED <<cfg, cctl, clog, chVars, dlVars, rtVars, mtVars, dcVars, lvVars, pcmVars, apVars>>

\* mutant of the test of the counter: the device is polled an iteration early
master_vol_due_Early(counter) == counter >= MasterVolEvery - 1

\* if master_vol_counter >= 5
master_vol_due(counter) == counter >= MasterVolEvery

\* upmixer.set_strength(*upmix_strength.read()); master_vol_counter += 1;
\* if master_vol_counter >= 5 { master_vol_counter = 0; ... }
CapPollUpmixStrength ==
    /\ StmtReady("poll_upmix_strength")
    /\ LET due == master_vol_due(cap.master_vol_counter + 1)
       IN  cap' = [cap EXCEPT
              !.dsp_chain.strength = FClamp(cfg.upmix_strength, Zero, Fin(10, 0)),
              !.master_vol_counter = IF due THEN 0 ELSE @ + 1,
              !.pc = IF due THEN "poll_sync" ELSE "wait"]
    /\ ReleaseGuards
    /\ UNCHANGED <<cfg, cctl, clog, chVars, dlVars, rtVars, mtVars, dcVars, lvVars, pcmVars, apVars>>

\* let sync_master = *sync_master_volume.read(); if sync_master { if let
\* Some(ref ep_vol) = endpoint_volume { ... } }
CapPollSync ==
    /\ StmtReady("poll_sync")
    /\ cap' = [cap EXCEPT !.pc = IF cfg.sync_master_volume /\ cap.endpoint_volume
                                 THEN "get_master_volume" ELSE "wait"]
    /\ ReleaseGuards
    /\ UNCHANGED <<cfg, cctl, clog, chVars, dlVars, rtVars, mtVars, dcVars, lvVars, pcmVars, apVars>>

\* if let Ok(master_vol) = ep_vol.GetMasterVolumeLevelScalar()
CapGetMasterVolume ==
    /\ cap.pc = "get_master_volume"
    /\ \/ \E v \in DeviceVolumes :
            cap' = [cap EXCEPT !.pc = "write_master_volume", !.polled_vol = v]
       \/ cap' = [cap EXCEPT !.pc = "get_mute"]
    /\ clog' = [clog EXCEPT !.dev_read = TRUE]
    /\ UNCHANGED <<cfg, held, cctl, chVars, dlVars, rtVars, mtVars, dcVars, lvVars, pcmVars, apVars>>

\* mutant of the publication: the device volume lands in the user volume
PublishMasterVolume_IntoVolume(c, master_vol) == [c EXCEPT !.volume = master_vol]

\* *dsp_config.master_volume.write() = master_vol
PublishMasterVolume(c, master_vol) == [c EXCEPT !.master_volume = master_vol]

CapWriteMasterVolume ==
    /\ StmtReady("write_master_volume")
    /\ cfg' = PublishMasterVolume(cfg, cap.polled_vol)
    /\ cap' = [cap EXCEPT !.pc = "get_mute", !.polled_vol = Zero]
    /\ ReleaseGuards
    /\ UNCHANGED <<cctl, clog, chVars, dlVars, rtVars, mtVars, dcVars, lvVars, pcmVars, apVars>>

\* if let Ok(muted) = ep_vol.GetMute()
CapGetMute ==
    /\ cap.pc = "get_mute"
    /\ \/ \E muted \in BOOLEAN :
            cap' = [cap EXCEPT !.pc = "write_master_muted", !.polled_muted = muted]
       \/ cap' = [cap EXCEPT !.pc = "wait"]
    /\ UNCHANGED <<cfg, held, cctl, clog, chVars, dlVars, rtVars, mtVars, dcVars, lvVars, pcmVars, apVars>>

\* *dsp_config.master_muted.write() = muted.as_bool()
CapWriteMasterMuted ==
    /\ StmtReady("write_master_muted")
    /\ cfg' = [cfg EXCEPT !.master_muted = cap.polled_muted]
    /\ cap' = [cap EXCEPT !.pc = "wait", !.polled_muted = FALSE]
    /\ ReleaseGuards
    /\ UNCHANGED <<cctl, clog, chVars, dlVars, rtVars, mtVars, dcVars, lvVars, pcmVars, apVars>>

\* WaitForSingleObject(event, 100): signalled, or the timeout re-loops
CapWait ==
    /\ cap.pc = "wait"
    /\ \E signalled \in BOOLEAN :
          cap' = [cap EXCEPT !.pc = IF signalled THEN "get_buffer" ELSE "top"]
    /\ UNCHANGED <<cfg, held, cctl, clog, chVars, dlVars, rtVars, mtVars, dcVars, lvVars, pcmVars, apVars>>

\* GetBuffer: an error or no frames leaves the drain loop, else the buffer's
\* frames are handled
CapGetBuffer ==
    /\ cap.pc = "get_buffer"
    /\ \/ cap' = [cap EXCEPT !.pc = "top"] /\ UNCHANGED clog
       \/ \E n \in 1..(MaxCapFrames - clog.delivered) :
            /\ cap' = [cap EXCEPT !.pc = "read_volume", !.loc.frames_available = n,
                                   !.buffer = n]
            /\ clog' = [clog EXCEPT !.delivered = @ + n, !.buffers = @ + 1]
    /\ UNCHANGED <<cfg, held, cctl, chVars, dlVars, rtVars, mtVars, dcVars, lvVars, pcmVars, apVars>>

\* the per-buffer reads, in program order: let vol = *volume.read(); ...
\* let sync_master = *dsp_config.sync_master_volume.read();
BufferReads ==
    <<"read_volume", "read_swap", "read_balance", "read_left_channel",
      "read_right_channel", "read_master_volume", "read_master_muted",
      "read_sync_master">>

ReadInto(loc, pc) ==
    CASE pc = "read_volume" -> [loc EXCEPT !.vol = cfg.volume]
      [] pc = "read_swap" -> [loc EXCEPT !.swap = cfg.swap_channels]
      [] pc = "read_balance" -> [loc EXCEPT !.bal = cfg.balance]
      [] pc = "read_left_channel" -> [loc EXCEPT !.left_ch = cfg.left_channel]
      [] pc = "read_right_channel" -> [loc EXCEPT !.right_ch = cfg.right_channel]
      [] pc = "read_master_volume" -> [loc EXCEPT !.master_vol = cfg.master_volume]
      [] pc = "read_master_muted" -> [loc EXCEPT !.master_muted = cfg.master_muted]
      [] pc = "read_sync_master" -> [loc EXCEPT !.sync_master = cfg.sync_master_volume]

CapReadParam ==
    \E i \in 1..Len(BufferReads) :
        /\ StmtReady(BufferReads[i])
        /\ cap' = [cap EXCEPT !.loc = ReadInto(@, BufferReads[i]),
                              !.pc = IF i < Len(BufferReads) THEN BufferReads[i + 1]
                                     ELSE "route"]
        /\ ReleaseGuards
        /\ UNCHANGED <<cfg, cctl, clog, chVars, dlVars, rtVars, mtVars, dcVars, lvVars, pcmVars, apVars>>

\* mutant of effective_vol: the device's mute is not applied
effective_vol_IgnoreMute(sync_master, master_muted, vol, master_vol) ==
    IF sync_master THEN FMul(vol, master_vol) ELSE vol

\* let effective_vol = if sync_master { if master_muted { 0.0 } else
\* { vol * master_vol } } else { vol };
effective_vol(sync_master, master_muted, vol, master_vol) ==
    IF sync_master
    THEN (IF master_muted THEN Zero ELSE FMul(vol, master_vol))
    ELSE vol

\* a stereo frame on its way: the id of the captured frame, the capture buffer
\* it came in, and the stages it has passed (resampled frames have id 0)
Frame(id, buf, stages) == [id |-> id, buf |-> buf, stages |-> stages]

\* bytes_to_f32 and process_channels on a buffer of n frames (16-bit, 24-bit
\* or float samples) whose first frame is frame number first: one stereo frame
\* per captured frame
stereo_output(first, n, buf) ==
    [i \in 1..n |-> Frame(first + i - 1, buf, <<"decode", "route">>)]

\* bytes_to_f32, effective_vol, process_channels; then the frames go to the
\* two resampler queues, or to the DSP chain and the push
CapRoute ==
    /\ cap.pc = "route"
    /\ LET n == cap.loc.frames_available
           out == stereo_output(clog.delivered - n + 1, n, clog.buffers)
           eff == effective_vol(cap.loc.sync_master, cap.loc.master_muted,
                                cap.loc.vol, cap.loc.master_vol)
       IN  cap' = [cap EXCEPT
              !.loc.effective_vol = eff,
              !.resample_input = IF cap.needs_resample
                                 THEN <<@[1] \o out, @[2] \o out>> ELSE @,
              !.todo = IF cap.needs_resample THEN <<>> ELSE out,
              !.pc = IF cap.needs_resample THEN "resample"
                     ELSE IF out # <<>> THEN "process" ELSE "release"]
    /\ UNCHANGED <<cfg, held, cctl, clog, chVars, dlVars, rtVars, mtVars, dcVars, lvVars, pcmVars, apVars>>

\* mutant of the drain: the range ends one sample early
DrainChunk_OneShort(queue, chunk_size) ==
    [chunk |-> SubSeq(queue, 1, chunk_size - 1),
     rest |-> SubSeq(queue, chunk_size, Len(queue))]

\* resample_input[c].drain(..chunk_size).collect()
DrainChunk(queue, chunk_size) ==
    [chunk |-> SubSeq(queue, 1, chunk_size),
     rest |-> SubSeq(queue, chunk_size + 1, Len(queue))]

\* while resample_input[0].len() >= chunk_size: drain a chunk from each queue,
\* rs.process; on Ok the resampled frames go to the DSP chain and the push
CapResample ==
    /\ cap.pc = "resample"
    /\ IF Len(cap.resample_input[1]) >= ChunkSize
       THEN LET left == DrainChunk(cap.resample_input[1], ChunkSize)
                right == DrainChunk(cap.resample_input[2], ChunkSize)
                stages == Append(left.chunk[1].stages, "resample")
            IN  /\ clog' = [clog EXCEPT
                       !.consumed = Append(@, <<left.chunk, right.chunk>>)]
                /\ \/ cap' = [cap EXCEPT !.resample_input = <<left.rest, right.rest>>]
                   \/ \E frames \in RsOutFrames :
                        cap' = [cap EXCEPT
                            !.resample_input = <<left.rest, right.rest>>,
                            !.todo = [i \in 1..frames |-> Frame(0, 0, stages)],
                            !.pc = "process"]
       ELSE cap' = [cap EXCEPT !.pc = "release"] /\ UNCHANGED clog
    /\ UNCHANGED <<cfg, held, cctl, chVars, dlVars, rtVars, mtVars, dcVars, lvVars, pcmVars, apVars>>

\* let (l, r) = dsp_chain.process(..); producer.try_push(l); producer.try_push(r)
CapProcess ==
    /\ cap.pc = "process"
    /\ LET frame == Head(cap.todo)
           stages == Append(frame.stages, "dsp")
       IN  /\ clog' = [clog EXCEPT !.pushed = @ \cup {stages}]
           /\ cap' = [cap EXCEPT
                  !.todo = Tail(@),
                  !.pc = IF Len(cap.todo) > 1 THEN "process"
                         ELSE IF cap.needs_resample THEN "resample" ELSE "release"]
    /\ UNCHANGED <<cfg, held, cctl, chVars, dlVars, rtVars, mtVars, dcVars, lvVars, pcmVars, apVars>>

\* mutant of the release argument: one frame, whatever was obtained
ReleaseCount_One(loc) == 1

\* the argument of ReleaseBuffer
ReleaseCount(loc) == loc.frames_available

\* capture_client.ReleaseBuffer(frames_available)?: on Ok the device has the
\* buffer back and the drain loop goes on; on Err capture_loop returns the
\* error at once, and whether the device took the buffer back is not the
\* program's to tell
CapRelease ==
    /\ cap.pc = "release"
    /\ \/ cap' = [cap EXCEPT !.pc = "get_buffer", !.loc = LocNone, !.buffer = 0]
       \/ \E left \in {0, cap.buffer} :
             cap' = [cap EXCEPT !.pc = "exited", !.exit = "fatal", !.loc = LocNone,
                                !.buffer = left]
    /\ UNCHANGED <<cfg, held, cctl, clog, chVars, dlVars, rtVars, mtVars, dcVars, lvVars, pcmVars, apVars>>

\* after the loop: client.Stop()?, CloseHandle(event), CoTaskMemFree(format_ptr),
\* CoUninitialize(), Ok(()); an error of client.Stop() returns before the rest
CapStopClient ==
    /\ cap.pc = "stop_client"
    /\ \/ cap' = [cap EXCEPT !.pc = "exited", !.exit = "stopped", !.live = {}]
       \/ cap' = [cap EXCEPT !.pc = "exited", !.exit = "stop_err"]
    /\ UNCHANGED <<cfg, held, cctl, clog, chVars, dlVars, rtVars, mtVars, dcVars, lvVars, pcmVars, apVars>>

\* a step of the capture thread
CaptureStep ==
    \/ CapSetup
    \/ CapLoopTop
    \/ CapAcquire
    \/ CapPollDelay
    \/ CapPollEqEnabled
    \/ CapPollSetEq
    \/ CapPollUpmixEnabled
    \/ CapPollUpmixStrength
    \/ CapPollSync
    \/ CapGetMasterVolume
    \/ CapWriteMasterVolume
    \/ CapGetMute
    \/ CapWriteMasterMuted
    \/ CapWait
    \/ CapGetBuffer
    \/ CapReadParam
    \/ CapRoute
    \/ CapResample
    \/ CapProcess
    \/ CapRelease
    \/ CapStopClient

CpNext ==
    \/ LoopbackStart
    \/ SetterBegin
    \/ SetterEnd
    \/ LoopbackStop
    \/ LoopbackJoin
    \/ CaptureStep

\* ---- the control surface writes a shared DSP parameter ----
\* The fields of DspConfig are public RwLocks (audio/loopback.rs:26-39); the
\* code that writes them on a user's change is not part of this source tree.
\* A write is *dsp_config.<field>.write() = value: it waits for the capture
\* thread's read guard on the field and is one step.
MaxDspWrites == 1       \* writes to shared DSP parameters in one run
DspWrites ==
    { <<"delay_ms", B_250>>, <<"eq_enabled", TRUE>>, <<"eq_low", B_6>>,
      <<"upmix_enabled", TRUE>>, <<"upmix_strength", One>> }

DspWritten(c, w) == [c EXCEPT ![w[1]] = w[2]]

DspWrite ==
    \E w \in DspWrites :
        /\ clog.dsp_writes < MaxDspWrites
        /\ w[1] \notin Range(held.capture)
        /\ cfg' = DspWritten(cfg, w)
        /\ clog' = [clog EXCEPT !.dsp_writes = @ + 1, !.dirty = TRUE]
        /\ UNCHANGED <<held, cap, cctl, chVars, dlVars, rtVars, mtVars, dcVars, lvVars, pcmVars, apVars>>

PollNext ==
    \/ LoopbackStart
    \/ LoopbackStop
    \/ LoopbackJoin
    \/ CaptureStep
    \/ DspWrite

(***************************************************************************)
(* LevelMeter (dsp/mod.rs) in bit-exact f32 arithmetic.                     *)
(***************************************************************************)
MeterCalls == 1000      \* process calls of the meter in one run

LevelMeter_new ==
    [left_rms |-> BZero, right_rms |-> BZero, left_peak |-> BZero, right_peak |-> BZero,
     attack |-> B_0_01, release |-> B_0_001]

\* mutant of the smoothing: the amplitude is smoothed, not its square
Smooth_NoSquare(self, rms, sample) ==
    LET coeff == IF BGt(sample, rms) THEN self.attack ELSE self.release
    IN  BAdd(rms, BMul(coeff, BSub(sample, rms)))

\* let sq = x * x; let coeff = if sq > rms { attack } else { release };
\* rms += coeff * (sq - rms)
Smooth(self, rms, sample) ==
    LET sq == BMul(sample, sample)
        coeff == IF BGt(sq, rms) THEN self.attack ELSE self.release
    IN  BAdd(rms, BMul(coeff, BSub(sq, rms)))

\* if abs > peak { peak = abs } else { peak *= 0.9995 }
PeakHold(peak, sample) ==
    IF BGt(BAbs(sample), peak) THEN BAbs(sample) ELSE BMul(peak, B_0_9995)

LevelMeter_process(self, left, right) ==
    [self EXCEPT !.left_rms = Smooth(self, @, left),
                 !.right_rms = Smooth(self, @, right),
                 !.left_peak = PeakHold(@, left),
                 !.right_peak = PeakHold(@, right)]

\* the constant pairs the meter is fed
MeterInputs == { <<B_0_5, B_0_5>>, <<B_0_25, BNeg(B_0_5)>>, <<BZero, B_0_25>> }

MeterNew == [lm |-> LevelMeter_new, input |-> <<BZero, BZero>>, calls |-> 0]
\* no meter has been built
MeterIdle == [calls |-> 0]

MtInit == \E input \in MeterInputs : meter = [MeterNew EXCEPT !.input = input]

MeterProcess ==
    /\ meter.calls < MeterCalls
    /\ meter' = [meter EXCEPT
          !.lm = LevelMeter_process(@, meter.input[1], meter.input[2]),
          !.calls = @ + 1]
    /\ UNCHANGED <<chVars, dlVars, rtVars, cpVars, dcVars, lvVars, pcmVars, apVars>>

MtNext == MeterProcess


(***************************************************************************)
(* bytes_to_f32 (audio/loopback.rs): little-endian PCM bytes to f32.  The  *)
(* integer widths give dyadic values that are exact in f32; a 32-bit float *)
(* is decoded from its sign, exponent and fraction fields.  -0.0 is kept   *)
(* as 0.0 (the two compare equal).                                         *)
(***************************************************************************)
MaxPcmBytes == 4        \* longest capture buffer, in bytes
PcmByteValues == {0, 1, 63, 127, 128, 192, 255}
PcmWidths == 0..5       \* bytes_per_sample = bits_per_sample / 8

\* n * 2^p as an f32 value
RECURSIVE Scaled(_, _)
Scaled(n, p) ==
    IF n = 0 THEN Zero
    ELSE IF p <= 0 THEN Fin(n, -p)
    ELSE IF p <= 6 THEN Fin(n * Pow2(p), 0)
    ELSE IF n % 2 = 0 THEN Scaled(n \div 2, p + 1)
    ELSE [k |-> "fin", n |-> n, e |-> -p]

\* f32::from_le_bytes([b0, b1, b2, b3])
f32_from_le_bytes(b0, b1, b2, b3) ==
    LET sign == IF b3 >= 128 THEN -1 ELSE 1
        exponent == (b3 % 128) * 2 + (b2 \div 128)
        fraction == (b2 % 128) * 65536 + b1 * 256 + b0
    IN  IF exponent = 255 THEN (IF fraction = 0 THEN Inf(sign) ELSE NaN)
        ELSE IF exponent = 0 THEN Scaled(sign * fraction, -149)
        ELSE Scaled(sign * (Pow2(23) + fraction), exponent - 150)

\* i16::from_le_bytes([b0, b1])
i16_from_le_bytes(b0, b1) ==
    LET u == b0 + b1 * 256
    IN  IF u >= 32768 THEN u - 65536 ELSE u

\* mutant of the 24-bit decode: no sign extension
i24_from_le_bytes_Unsigned(b0, b1, b2) == b0 + b1 * 256 + b2 * 65536

\* ((b0 as i32) | ((b1 as i32) << 8) | ((b2 as i32) << 16)) << 8 >> 8: the left
\* shift wraps in 32 bits, the right shift is arithmetic (it rounds down)
i24_from_le_bytes(b0, b1, b2) ==
    LET u == b0 + b1 * 256 + b2 * 65536
        shl == IF u >= Pow2(23) THEN (u - Pow2(24)) * 256 ELSE u * 256
    IN  shl \div 256

bytes_to_f32(data, bytes_per_sample) ==
    LET chunk(i) == [j \in 1..bytes_per_sample |-> data[(i - 1) * bytes_per_sample + j]]
    IN  CASE bytes_per_sample = 4 ->
               [i \in 1..(Len(data) \div 4) |->
                   f32_from_le_bytes(chunk(i)[1], chunk(i)[2], chunk(i)[3], chunk(i)[4])]
          [] bytes_per_sample = 2 ->
               [i \in 1..(Len(data) \div 2) |->
                   Fin(i16_from_le_bytes(chunk(i)[1], chunk(i)[2]), 15)]
          [] bytes_per_sample = 3 ->
               [i \in 1..(Len(data) \div 3) |->
                   Fin(i24_from_le_bytes(chunk(i)[1], chunk(i)[2], chunk(i)[3]), 23)]
          [] OTHER -> <<>>

PcmIdle == [data |-> <<>>, bytes_per_sample |-> 0, out |-> <<>>, done |-> FALSE]

PcmInit ==
    \E n \in 0..MaxPcmBytes : \E data \in [1..n -> PcmByteValues] :
        \E width \in PcmWidths :
            pcm = [PcmIdle EXCEPT !.data = data, !.bytes_per_sample = width]

BytesToF32 ==
    /\ ~pcm.done
    /\ pcm' = [pcm EXCEPT !.out = bytes_to_f32(pcm.data, pcm.bytes_per_sample),
                          !.done = TRUE]
    /\ UNCHANGED <<chVars, dlVars, rtVars, cpVars, mtVars, dcVars, lvVars, apVars>>

PcmNext == BytesToF32

(***************************************************************************)
(* The application (main.rs): main's start of the routing and the tray     *)
(* commands App::about_to_wait handles, one command per step.  A call of   *)
(* AudioRouter::start_loopback or ::stop is taken whole here; the route    *)
(* machine above has their steps.  starts numbers the start_loopback calls *)
(* (a successful one gives the router's capture and stream that number),   *)
(* detached counts the capture threads that failed starts left running.    *)
(***************************************************************************)
MaxCommands == 4        \* tray commands handled in one run
Devices == {"Speakers", "Headset"}

AppConfigs ==
    [enabled : BOOLEAN, swap_channels : {FALSE}, volume : {One}, balance : {Zero},
     left_channel : {CfgDefault.left_channel}, right_channel : {CfgDefault.right_channel}]

AppNew(config) ==
    [phase |-> "main", config |-> config, source_name |-> "Speakers",
     target_name |-> "Headset", router |-> RouterNew, starts |-> 0, detached |-> 0,
     startup |-> FALSE, cmds |-> 0, last |-> "none"]

\* main has not run
AppIdle == [phase |-> "none"]

ApInit == \E config \in AppConfigs : app = AppNew(config)

\* AudioRouter::stop: the flag is cleared, the capture is stopped and joined,
\* the stream is dropped
router_stop(a) == [a EXCEPT !.router = RouterNew]

\* AudioRouter::start_loopback: stop, then the device, its config, the ring
\* buffer, running.store(true), the capture thread, the stream and play.  An
\* error before the flag is set leaves the router stopped; one after the spawn
\* leaves the flag set and the new thread running with nothing to stop it.
router_start_loopback(a, outcome) ==
    LET s == router_stop(a)
        t == a.starts + 1
    IN  IF outcome \in {"output_device_not_found", "output_config_error"}
        THEN [s EXCEPT !.starts = t]
        ELSE IF outcome = "ok"
        THEN [s EXCEPT !.starts = t,
                       !.router = [running |-> TRUE, loopback |-> t, output_stream |-> t]]
        ELSE [s EXCEPT !.starts = t, !.router.running = TRUE,
                       !.detached = @ + 1]

\* mutant of the test before the restart: the device is restarted regardless
RestartWanted_Always(config) == TRUE

\* if self.config.enabled, after the stop of SelectSourceDevice / SelectTargetDevice
RestartWanted(config) == config.enabled

Handled(a, cmd) == [a EXCEPT !.cmds = @ + 1, !.last = cmd]

MayCommand == app.phase = "loop" /\ app.cmds < MaxCommands

\* main: if config.enabled { router.start_loopback(..) }, then the event loop
AppStartup ==
    /\ app.phase = "main"
    /\ \E outcome \in StartOutcomes :
          app' = [(IF app.config.enabled THEN router_start_loopback(app, outcome) ELSE app)
                  EXCEPT !.phase = "loop", !.last = "main"]
    /\ UNCHANGED <<chVars, dlVars, rtVars, cpVars, mtVars, dcVars, lvVars, pcmVars>>

AppToggleEnabled ==
    /\ MayCommand
    /\ \E outcome \in StartOutcomes :
          LET a == [app EXCEPT !.config.enabled = ~@]
          IN  app' = Handled(IF a.config.enabled THEN router_start_loopback(a, outcome)
                             ELSE router_stop(a),
                             "ToggleEnabled")
    /\ UNCHANGED <<chVars, dlVars, rtVars, cpVars, mtVars, dcVars, lvVars, pcmVars>>

\* the commands that assign a setting and pass it to the router's setter
SettingCommands ==
    {"ToggleSwapChannels", "SetVolume", "SetBalance", "SetLeftSource", "SetRightSource",
     "ToggleLeftMute", "ToggleRightMute", "SetLeftVolume", "SetRightVolume"}

ConfigAfter(config, cmd) ==
    CASE cmd = "ToggleSwapChannels" -> [config EXCEPT !.swap_channels = ~@]
      [] cmd = "SetVolume" -> [config EXCEPT !.volume = Half]
      [] cmd = "SetBalance" -> [config EXCEPT !.balance = Half]
      [] cmd = "SetLeftSource" -> [config EXCEPT !.left_channel.source = "FR"]
      [] cmd = "SetRightSource" -> [config EXCEPT !.right_channel.source = "FL"]
      [] cmd = "ToggleLeftMute" -> [config EXCEPT !.left_channel.muted = ~@]
      [] cmd = "ToggleRightMute" -> [config EXCEPT !.right_channel.muted = ~@]
      [] cmd = "SetLeftVolume" -> [config EXCEPT !.left_channel.volume = Half]
      [] cmd = "SetRightVolume" -> [config EXCEPT !.right_channel.volume = Half]

AppSetting ==
    /\ MayCommand
    /\ \E cmd \in SettingCommands :
          app' = Handled([app EXCEPT !.config = ConfigAfter(@, cmd)], cmd)
    /\ UNCHANGED <<chVars, dlVars, rtVars, cpVars, mtVars, dcVars, lvVars, pcmVars>>

\* set_startup_enabled(!current): the registry entry changes, or the call fails
AppToggleStartup ==
    /\ MayCommand
    /\ \E ok \in BOOLEAN :
          app' = Handled([app EXCEPT !.startup = IF ok THEN ~@ ELSE @], "ToggleStartup")
    /\ UNCHANGED <<chVars, dlVars, rtVars, cpVars, mtVars, dcVars, lvVars, pcmVars>>

AppSelectSourceDevice ==
    /\ MayCommand
    /\ \E device \in Devices, outcome \in StartOutcomes :
          LET a == router_stop([app EXCEPT !.source_name = device])
          IN  app' = Handled(IF RestartWanted(a.config) THEN router_start_loopback(a, outcome)
                             ELSE a,
                             "SelectSourceDevice")
    /\ UNCHANGED <<chVars, dlVars, rtVars, cpVars, mtVars, dcVars, lvVars, pcmVars>>

AppSelectTargetDevice ==
    /\ MayCommand
    /\ \E device \in Devices, outcome \in StartOutcomes :
          LET a == router_stop([app EXCEPT !.target_name = device])
          IN  app' = Handled(IF RestartWanted(a.config) THEN router_start_loopback(a, outcome)
                             ELSE a,
                             "SelectTargetDevice")
    /\ UNCHANGED <<chVars, dlVars, rtVars, cpVars, mtVars, dcVars, lvVars, pcmVars>>

\* TestMainLeft, TestMainRight, TestSubLeft, TestSubRight: a thread of its own
\* plays the tone on a clone of the router made for the test
AppTestTone ==
    /\ MayCommand
    /\ \E cmd \in {"TestMainLeft", "TestMainRight", "TestSubLeft", "TestSubRight"} :
          app' = Handled(app, cmd)
    /\ UNCHANGED <<chVars, dlVars, rtVars, cpVars, mtVars, dcVars, lvVars, pcmVars>>

AppQuit ==
    /\ MayCommand
    /\ app' = [Handled(router_stop(app), "Quit") EXCEPT !.phase = "exited"]
    /\ UNCHANGED <<chVars, dlVars, rtVars, cpVars, mtVars, dcVars, lvVars, pcmVars>>

ApNext ==
    \/ AppStartup
    \/ AppToggleEnabled
    \/ AppSetting
    \/ AppToggleStartup
    \/ AppSelectSourceDevice
    \/ AppSelectTargetDevice
    \/ AppTestTone
    \/ AppQuit

(***************************************************************************)
(* Specifications                                                          *)
(***************************************************************************)
ChOutNone == [done |-> FALSE, output |-> <<>>]
ChIdleInit == chIn = ChIdle /\ chOut = ChOutNone
DlIdleInit == dl = DlIdle /\ dlLog = <<>> /\ dlFresh = DlFreshIdle
MtIdleInit == meter = MeterIdle
\* no router has been built, no capture thread set up
RtIdleInit ==
    /\ router = [running |-> FALSE] /\ ctl = [pc |-> "idle"] /\ thr = <<>>
    /\ lbRunning = <<>> /\ rb = <<>> /\ cb = [pc |-> "idle"] /\ hist = [spawned |-> 0]
CpIdleInit ==
    /\ cfg = [volume |-> One] /\ held = [capture |-> <<>>] /\ cap = [pc |-> "none"]
    /\ cctl = [pc |-> "idle"] /\ clog = [delivered |-> 0]
DcIdleInit == dc = DcIdle /\ chlog = ChlogIdle
LvIdleInit == levels = LvIdle /\ lvt = LvtIdle
PcmIdleInit == pcm = PcmIdle
ApIdleInit == app = AppIdle
NewIdleInit == DcIdleInit /\ LvIdleInit /\ PcmIdleInit /\ ApIdleInit

ChNext == ProcessChannels
DlNext == SetDelaySamples \/ DelayProcess

InitChannels == ChInit /\ DlIdleInit /\ RtIdleInit /\ CpIdleInit /\ MtIdleInit /\ NewIdleInit
InitDelay == DlInit /\ ChIdleInit /\ RtIdleInit /\ CpIdleInit /\ MtIdleInit /\ NewIdleInit
InitRoute == RtInit /\ ChIdleInit /\ DlIdleInit /\ CpIdleInit /\ MtIdleInit /\ NewIdleInit
InitCapture == CpInit /\ ChIdleInit /\ DlIdleInit /\ RtIdleInit /\ MtIdleInit /\ NewIdleInit
InitMeter == MtInit /\ ChIdleInit /\ DlIdleInit /\ RtIdleInit /\ CpIdleInit /\ NewIdleInit
InitLevels == LvInit /\ ChIdleInit /\ DlIdleInit /\ RtIdleInit /\ CpIdleInit /\ MtIdleInit
                  /\ DcIdleInit /\ PcmIdleInit /\ ApIdleInit
InitDecode == PcmInit /\ ChIdleInit /\ DlIdleInit /\ RtIdleInit /\ CpIdleInit /\ MtIdleInit
                  /\ DcIdleInit /\ LvIdleInit /\ ApIdleInit
InitApp == ApInit /\ ChIdleInit /\ DlIdleInit /\ RtIdleInit /\ CpIdleInit /\ MtIdleInit
               /\ DcIdleInit /\ LvIdleInit /\ PcmIdleInit
InitChain == DcInit /\ ChIdleInit /\ DlIdleInit /\ RtIdleInit /\ CpIdleInit /\ MtIdleInit
                 /\ LvIdleInit /\ PcmIdleInit /\ ApIdleInit

SpecChannels == InitChannels /\ [][ChNext]_vars
SpecDelay == InitDelay /\ [][DlNext]_vars
SpecRoute == InitRoute /\ [][RtNext]_vars
SpecCapture == InitCapture /\ [][CpNext]_vars
SpecMeter == InitMeter /\ [][MtNext]_vars
SpecDecode == InitDecode /\ [][PcmNext]_vars
SpecLevels == InitLevels /\ [][LvNext]_vars
InitLevelThreads == LvtInit /\ levels = LvIdle /\ ChIdleInit /\ DlIdleInit /\ RtIdleInit
                        /\ CpIdleInit /\ MtIdleInit
                        /\ DcIdleInit /\ PcmIdleInit /\ ApIdleInit
SpecLevelThreads == InitLevelThreads /\ [][LvtNext]_vars
SpecChain == InitChain /\ [][DcNext]_vars
SpecPoll == InitCapture /\ [][PollNext]_vars
SpecApp == InitApp /\ [][ApNext]_vars

\* Scheduling: the capture thread keeps running (every wait on the event
\* returns, every lock it waits for is released), a setter finishes, and a
\* join returns once the thread has ended.  The capture source delivers
\* MaxCapFrames frames at most, so it reports no buffer in the end.
SpecCaptureFair ==
    SpecCapture /\ WF_vars(CaptureStep) /\ WF_vars(SetterEnd) /\ WF_vars(LoopbackJoin)

(***************************************************************************)
(* Claims                                                                  *)
(***************************************************************************)

\* C1: both samples process_channels emits for every frame lie in [-1, 1],
\* whatever the input frame, channel count, settings, balance, swap, volume
\* and upmix contribution.  (Stated as claimed; a NaN sample refutes it.)
C1_OutputWithinUnitRange ==
    chOut.done => \A i \in 1..Len(chOut.output) : InUnitRange(chOut.output[i])

\* C2: at most one capture thread is alive at any time, whatever start_loopback
\* and stop calls were made and whatever each start_loopback returned.
\* (Stated as claimed; a start_loopback that fails after the spawn refutes it.)
C2_AtMostOneCaptureThread ==
    Cardinality({t \in RouteIds : Alive(t)}) <= 1

\* C3: once LoopbackCapture::stop has returned from its join, the capture thread
\* of that route has ended and makes no further try_push; AudioRouter::stop gets
\* past its loopback.stop() only with the route it held joined.
C3_NoPushAfterStop ==
    /\ [](\A t \in RouteIds : hist.joined[t] => thr[t].pc = "exited")
    /\ []((ctl.pc \in {"drop", "setup"} /\ ctl.loopback # NoRoute)
            => hist.joined[ctl.loopback])
    /\ [][\A t \in RouteIds :
            hist.joined[t] => /\ hist.attempts'[t] = hist.attempts[t]
                              /\ hist.pushed'[t] = hist.pushed[t]]_vars

C3_StoppedAfterPushing ==
    \E t \in RouteIds :
        /\ hist.joined[t]
        /\ thr[t].exit = "stopped"
        /\ hist.attempts[t] > 0
        /\ ctl.pc = "idle"

\* C4: the ring buffer is a bounded FIFO: it holds between 0 and capacity items,
\* and the values pushed successfully are, in order, the values popped so far
\* followed by the values stored; so a failed push and a pop on empty change
\* nothing, and values leave in the order their pushes succeeded.
C4_BoundedFifo ==
    \A t \in RouteIds :
        /\ RbOccupied(rb[t]) \in 0..rb[t].capacity
        /\ hist.pushed[t] = hist.popped[t] \o RbContents(rb[t])
        /\ Len(hist.pushed[t]) <= hist.attempts[t]

C4_OverflowThenDrained ==
    \E t \in RouteIds :
        /\ hist.attempts[t] > Len(hist.pushed[t])
        /\ Len(hist.popped[t]) = Len(hist.pushed[t])
        /\ Len(hist.popped[t]) >= RbCapacity
        /\ cb.pc = "idle" /\ cb.n > 0 /\ cb.data[cb.n] = Silence

\* C5: every failed try_push, of a left or a right sample, on either path,
\* increments overflow_counter by exactly one, and a warning is logged exactly
\* when the counter reaches 1 or a multiple of 10,000.
\* (Stated as claimed; the right-sample push of the direct path refutes it.)
C5_EveryFailedPushCounted ==
    [][\A t \in RouteIds :
         (hist.attempts'[t] = hist.attempts[t] + 1 /\ hist.pushed'[t] = hist.pushed[t])
         => /\ thr'[t].overflow_counter = thr[t].overflow_counter + 1
            /\ thr'[t].warnings = thr[t].warnings
                   + (IF WarnDue(thr'[t].overflow_counter) THEN 1 ELSE 0)]_vars

\* C6: each invocation of the render callback fills every one of its n slots
\* without waiting: a slot receives the oldest value in the ring if there is one
\* at that moment and 0.0 otherwise; the callback takes at most n items, and
\* touches nothing but the consumer side of its ring buffer.
C6_CallbackFillsEverySlot ==
    /\ [](cb.pc = "fill" => (Len(cb.data) < cb.n /\ ENABLED CallbackSlot))
    /\ [](cb.pc = "idle" => Len(cb.data) = cb.n)
    /\ [](cb.taken <= Len(cb.data))
    /\ [][cb' # cb /\ cb.pc = "fill" =>
            LET s == router.output_stream
                k == Len(hist.popped[s])
            IN  /\ cb'.data = Append(cb.data,
                        IF k < Len(hist.pushed[s]) THEN hist.pushed[s][k + 1] ELSE Silence)
                /\ Len(hist.popped'[s]) = IF k < Len(hist.pushed[s]) THEN k + 1 ELSE k
                /\ rb'[s].write = rb[s].write
                /\ \A t \in RouteIds \ {s} : rb'[t] = rb[t]
                /\ hist'.pushed = hist.pushed /\ hist'.attempts = hist.attempts
                /\ UNCHANGED <<router, ctl, thr, lbRunning>>]_vars

C6_ValueThenSilence ==
    /\ cb.pc = "idle" /\ cb.n = 2
    /\ cb.data[1] # Silence
    /\ cb.data[2] = Silence
    /\ cb.taken = 1

\* C7: when starting a route fails during setup, start_loopback returns an error
\* and the route is left Stopped: no capture thread alive, no render stream,
\* is_running() false.  (Stated as claimed; a render stream that cannot be built,
\* and a capture setup failure inside the thread, refute it.)
C7_FailedStartLeavesStopped ==
    /\ (ctl.pc = "idle" /\ hist.last_start = "err")
          => /\ ~router.running
             /\ router.output_stream = NoRoute
             /\ \A t \in RouteIds : ~Alive(t)
    /\ \A t \in RouteIds : thr[t].exit = "setup_err" => hist.result[t] = "err"

\* C8: after a fatal device error has ended the capture loop, the running flags
\* of LoopbackCapture and AudioRouter read false.
\* (Stated as claimed; nothing clears either flag when the thread ends.)
C8_FatalErrorStopsRoute ==
    \A t \in RouteIds :
        thr[t].exit = "fatal"
        => /\ ~lbRunning[t]
           /\ (router.loopback = t => ~router.running)

\* C9: on a fresh DelayBuffer of capacity C with set_delay_samples(d), 1 <= d <= C,
\* the n-th process call (from 0) returns 0 when n < d and the input of call
\* n - d when n >= d.
C9_FreshDelayLine ==
    (/\ dlFresh.phase = "set"
     /\ dlFresh.requested >= 1
     /\ dlFresh.requested <= Len(dl.buffer))
    => \A n \in 0..(Len(dlLog) - 1) :
          dlLog[n + 1].output =
              IF n < dlFresh.requested THEN 0
              ELSE dlLog[n - dlFresh.requested + 1].input

C9_FullCapacityDelayWraps ==
    /\ dlFresh.phase = "set"
    /\ dlFresh.requested >= 2
    /\ dlFresh.requested = Len(dl.buffer)
    /\ Len(dlLog) >= dlFresh.requested + 2
    /\ dlLog[1].input # 0 /\ dlLog[1].output = 0
    /\ dlLog[Len(dlLog)].output # 0
    /\ dlLog[Len(dlLog)].output # dlLog[Len(dlLog)].input

\* C10: while delay_samples is 0, process(x) returns x, whatever the buffer
\* holds and whatever calls came before.
C10_ZeroDelayPassThrough ==
    (Len(dlLog) > 0 /\ dlFresh.last_delay = 0)
    => dlLog[Len(dlLog)].output = dlLog[Len(dlLog)].input

C10_BypassOverStaleBuffer ==
    /\ Len(dlLog) >= 2
    /\ dlFresh.last_delay = 0
    /\ dlFresh.phase = "mixed"
    /\ dlLog[Len(dlLog)].input # 0
    /\ Len(dl.buffer) > 0
    /\ dl.buffer[dl.write_pos + 1] # 0
    /\ dl.buffer[dl.write_pos + 1] # dlLog[Len(dlLog)].input

\* C16: for every balance in [-1, 1] the router's multipliers are
\* left_mult = 1 - balance when balance > 0 and 1 otherwise, right_mult =
\* 1 + balance when balance < 0 and 1 otherwise: balance -1 gives (1, 0),
\* 0 gives (1, 1), +1 gives (0, 1), and neither multiplier exceeds 1.
C16_BalanceLaw ==
    chOut.done =>
        LET b == chIn.balance
            lm == left_mult(b)
            rm == right_mult(b)
        IN  /\ (b = FNeg(One) => lm = One /\ rm = Zero)
            /\ (b = Zero => lm = One /\ rm = One)
            /\ (b = One => lm = Zero /\ rm = One)
            /\ (b = Half => lm = Half /\ rm = One)
            /\ FLe(lm, One) /\ FLe(rm, One)
            /\ FLe(Zero, lm) /\ FLe(Zero, rm)

C16_FullRightRouted ==
    chOut.done /\ chIn.balance = One /\ Len(chOut.output) >= 2 /\ chIn.volume = One

\* C17: the router resolves FL to index 0 and FR to index 1 for every channel
\* count, RL to 2 and RR to 3 when the source has at least four channels, and
\* RL to 0 and RR to 1 when it has fewer.
C17_SourceIndexResolution ==
    chOut.done =>
        \A ch \in {chIn.left_ch, chIn.right_ch} :
            LET idx == get_channel_idx(ch.source, chIn.channels)
            IN  /\ (ch.source = "FL" => idx = 0)
                /\ (ch.source = "FR" => idx = 1)
                /\ (ch.source = "RL" /\ chIn.channels >= 4 => idx = 2)
                /\ (ch.source = "RR" /\ chIn.channels >= 4 => idx = 3)
                /\ (ch.source = "RL" /\ chIn.channels < 4 => idx = 0)
                /\ (ch.source = "RR" /\ chIn.channels < 4 => idx = 1)

C17_RearFallsBackToFront ==
    /\ chOut.done /\ Len(chOut.output) >= 2
    /\ chIn.channels = 2
    /\ chIn.left_ch.source = "RL" /\ chIn.right_ch.source = "RR"

\* C19: for each frame the value of a side is 0 when the side is muted, else
\* the frame's sample at the side's source index times the side volume, plus
\* the side's upmix contribution ((0, 0) when upmix is off); with swap set the
\* two values change places before the balance multipliers are applied, so
\* the right side's value times left_mult is the left output sample, and the
\* left side's value times right_mult is the right output sample.
C19_SwapBeforeBalance ==
    chOut.done =>
        \A f \in 0..((Len(chOut.output) \div 2) - 1) :
            LET base == f * chIn.channels
                up == IF chIn.dsp.upmix_enabled THEN chIn.dsp.rear ELSE <<Zero, Zero>>
                Side(ch, u) ==
                    FAdd(IF ch.muted THEN Zero
                         ELSE FMul(InputGet(chIn.input,
                                            base + get_channel_idx(ch.source, chIn.channels)),
                                   ch.volume),
                         u)
                lv == Side(chIn.left_ch, up[1])
                rv == Side(chIn.right_ch, up[2])
                Emit(v, mult) == FClamp(FMul(FMul(v, chIn.volume), mult), FNeg(One), One)
            IN  /\ chOut.output[2 * f + 1] =
                       Emit(IF chIn.swap THEN rv ELSE lv, left_mult(chIn.balance))
                /\ chOut.output[2 * f + 2] =
                       Emit(IF chIn.swap THEN lv ELSE rv, right_mult(chIn.balance))

C19_SwappedUnderBalance ==
    /\ chOut.done /\ Len(chOut.output) >= 2
    /\ chIn.swap /\ chIn.balance = Half /\ chIn.volume = One
    /\ chIn.dsp.upmix_enabled
    /\ chIn.left_ch.muted /\ ~chIn.right_ch.muted
    /\ chOut.output[1] # chOut.output[2]
    /\ chOut.output[1] # Zero

\* C11: every pushed sample has passed PCM decode, the channel router, the DSP
\* chain, then the resampler when the rates differ, in this order; with
\* resampling DspChain::process is applied before the frame enters the
\* resampler.  (Stated as claimed; the resampling path refutes it.)
C11_StagesInOrder ==
    \A stages \in clog.pushed :
        stages = IF cap.needs_resample
                 THEN <<"decode", "route", "dsp", "resample">>
                 ELSE <<"decode", "route", "dsp">>

C13_AtMostOneLockHeld ==
    Len(held.capture) <= 1 /\ Len(held.control) <= 1

\* C14: the capture thread writes no shared parameter.  (Stated as claimed;
\* the device volume poll refutes it.)
C14_CaptureThreadWritesNothing ==
    [][CaptureStep => cfg' = cfg]_vars

\* C14 as amended: the capture thread writes no shared parameter other than
\* master_volume and master_muted, and these two only in its device poll,
\* with the value the device reported.
C14_CaptureThreadWritesOnlyDeviceState ==
    [][CaptureStep =>
          /\ \A l \in Locks \ {"master_volume", "master_muted"} : cfg'[l] = cfg[l]
          /\ cfg'.master_volume # cfg.master_volume =>
                cap.pc = "write_master_volume" /\ cfg'.master_volume = cap.polled_vol
          /\ cfg'.master_muted # cfg.master_muted =>
                cap.pc = "write_master_muted" /\ cfg'.master_muted = cap.polled_muted]_vars

C14_DeviceVolumePublished ==
    /\ cfg.master_volume = Half /\ cfg.master_muted
    /\ cfg.volume = Half
    /\ cap.pc = "wait"

\* C15: once stop has stored false in the running flag the capture thread
\* ends and the join in stop returns; once the loop has seen the flag false
\* the thread takes no lock and acquires and handles no further buffer.
C15_StopEndsCaptureThread ==
    /\ (cctl.pc = "join") ~> cctl.stopped
    /\ [](cctl.stopped => cap.pc = "exited")
    /\ [][cap.pc \in {"stop_client", "exited"} =>
            /\ cap'.pc \in {"stop_client", "exited"}
            /\ clog' = clog /\ held'.capture = <<>>]_vars

C15_StoppedWhileDraining ==
    /\ cctl.stopped /\ cap.exit = "stopped"
    /\ clog.delivered = MaxCapFrames /\ clog.pushed # {}

\* C18: the volume handed to the router for a capture buffer is the user
\* volume times the device master volume when sync is on and the device is
\* not muted, 0 when sync is on and the device is muted, and the user volume
\* alone when sync is off.
C18_EffectiveMasterVolume ==
    cap.pc \in {"resample", "process", "release"} =>
        LET loc == cap.loc
        IN  /\ (loc.sync_master /\ ~cfg.master_muted =>
                   loc.effective_vol = FMul(loc.vol, cfg.master_volume))
            /\ (loc.sync_master /\ cfg.master_muted => loc.effective_vol = Zero)
            /\ (~loc.sync_master => loc.effective_vol = loc.vol)

C18_HalfUserHalfDevice ==
    /\ cap.pc = "process"
    /\ cap.loc.sync_master /\ ~cfg.master_muted
    /\ cap.loc.vol = Half /\ cfg.master_volume = Half
    /\ cap.loc.effective_vol = Fin(1, 2)

\* C20: a fresh LevelMeter fed the constant pair (0.5, 0.5) for 1000 process
\* calls holds, for both channels, a smoothed mean square strictly between
\* 0.1 and 0.398, that is an RMS level strictly between -10 dB and -4 dB.
C20_MeterSettlesNearMinusSixDb ==
    meter.calls = MeterCalls /\ meter.input = <<B_0_5, B_0_5>> =>
        /\ BGtRat(meter.lm.left_rms, 1, 10) /\ BLtRat(meter.lm.left_rms, 199, 500)
        /\ BGtRat(meter.lm.right_rms, 1, 10) /\ BLtRat(meter.lm.right_rms, 199, 500)

C20_ThousandCallsAtHalf ==
    /\ meter.calls = MeterCalls /\ meter.input = <<B_0_5, B_0_5>>
    /\ meter.lm.left_rms = [s |-> 1, m |-> 16776491, x |-> -26]
    /\ meter.lm.left_peak = [s |-> 1, m |-> 16768827, x |-> -25]

\* C24: every call of DelayBuffer::process, whatever delay_samples is (0
\* included), stores the input sample at write_pos and advances write_pos by
\* one modulo the capacity.  (Stated as claimed, for a buffer of non-zero
\* capacity; the early return at delay 0 refutes it.)
C24_EveryCallStoresAndAdvances ==
    [][DelayProcess /\ Len(dl.buffer) > 0 =>
          /\ dl'.buffer[dl.write_pos + 1] = dlLog'[Len(dlLog')].input
          /\ dl'.write_pos = (dl.write_pos + 1) % Len(dl.buffer)]_vars

\* C29: under every interleaving of the capture thread and the render
\* callback, overflow and underflow included, an even slot of the render
\* buffer holds a left-channel sample or silence, and the odd slot after it
\* holds the right-channel sample of the same frame or silence.  (Stated as
\* claimed; a callback that runs between the two pushes of a frame refutes it.)
C29_InterleavingPreserved ==
    \A i \in 1..Len(cb.data) :
        IF i % 2 = 1
        THEN cb.data[i] = Silence \/ cb.data[i][2] = "L"
        ELSE \/ cb.data[i] = Silence
             \/ /\ cb.data[i][2] = "R"
                /\ cb.data[i - 1] # Silence
                /\ cb.data[i][1] = cb.data[i - 1][1]

\* C28: bytes_to_f32 decodes little-endian PCM by sample width: 2 bytes as a
\* signed 16-bit integer over 32768, 3 bytes as a sign-extended 24-bit
\* two's-complement integer over 8388608, 4 bytes as an IEEE float; any other
\* width gives an empty result; the result has floor(len / width) samples and
\* every integer-decoded sample lies in [-1, 1).
C28_PcmDecoding ==
    pcm.done =>
        LET w == pcm.bytes_per_sample
            b(i, j) == pcm.data[(i - 1) * w + j]
            signed(u, bits) == IF u >= Pow2(bits - 1) THEN u - Pow2(bits) ELSE u
            s(i) == pcm.out[i]
        IN  /\ w \notin {2, 3, 4} => pcm.out = <<>>
            /\ w \in {2, 3, 4} => Len(pcm.out) = Len(pcm.data) \div w
            /\ w = 2 => \A i \in 1..Len(pcm.out) :
                  /\ s(i) = Fin(signed(b(i, 1) + 256 * b(i, 2), 16), 15)
                  /\ FLe(FNeg(One), s(i)) /\ FLt(s(i), One)
            /\ w = 3 => \A i \in 1..Len(pcm.out) :
                  /\ s(i) = Fin(signed(b(i, 1) + 256 * b(i, 2) + 65536 * b(i, 3), 24), 23)
                  /\ FLe(FNeg(One), s(i)) /\ FLt(s(i), One)
            /\ w = 4 => \A i \in 1..Len(pcm.out) :
                  LET c == <<b(i, 1), b(i, 2), b(i, 3), b(i, 4)>>
                  IN  /\ c = <<0, 0, 0, 63>> => s(i) = Half
                      /\ c = <<0, 0, 128, 63>> => s(i) = One
                      /\ c = <<0, 0, 192, 63>> => s(i) = Fin(3, 1)
                      /\ c = <<0, 0, 0, 192>> => s(i) = Fin(-2, 0)
                      /\ c = <<0, 0, 0, 0>> => s(i) = Zero
                      /\ c = <<1, 0, 0, 0>> => s(i) = Fin(1, 149)
                      /\ c = <<0, 0, 128, 127>> => s(i) = Inf(1)
                      /\ c = <<0, 0, 128, 255>> => s(i) = Inf(-1)
                      /\ c = <<0, 0, 192, 127>> => s(i) = NaN
                      /\ c[4] >= 128 => s(i).k = "nan" \/ s(i).n <= 0
                      /\ s(i).k = "fin" <=> c[4] % 128 # 127 \/ c[3] < 128

C28_NegativeTwentyFourBit ==
    /\ pcm.done /\ pcm.bytes_per_sample = 3 /\ Len(pcm.data) = 4
    /\ pcm.out = <<Fin(-1, 23)>>

C23_DelayRoundedToNearest ==
    /\ dc.delay_l.delay_samples <= Len(dc.delay_l.buffer)
    /\ dc.delay_r.delay_samples <= Len(dc.delay_r.buffer)
    /\ chlog.last.op = "set_delay_ms" =>
          LET ms == BTrunc(chlog.last.args[1])
              nearest == (dc.sample_rate * ms + 500) \div 1000
          IN  /\ dc.delay_l.delay_samples = Min(nearest, Len(dc.delay_l.buffer))
              /\ dc.delay_r.delay_samples = Min(nearest, Len(dc.delay_r.buffer))

\* a gain in units of 2^-21 dB (the gains tried are whole multiples), and
\* |a - b| <= 0.1 on these
GainUnits(a) ==
    a.s * (IF a.x + 21 >= 0 THEN a.m * Pow2(a.x + 21) ELSE a.m \div Pow2(-(a.x + 21)))
WithinTenth(a, b) ==
    LET d == GainUnits(a) - GainUnits(b)
    IN  10 * (IF d < 0 THEN -d ELSE d) <= Pow2(21)

\* C25: a set_eq call whose three gains are each within 0.1 dB of the cached
\* gains leaves both EQs (coefficients and history) and the cache as they
\* were; any other set_eq call replaces the three bands of both EQs by newly
\* designed filters for the requested gains and caches these gains.  Either
\* way the cached gains are within 0.1 dB of the requested ones afterwards,
\* and nothing else of the chain changes.
C25_SetEqRebuildsOnlyOnChange ==
    [][(chlog'.last.op = "set_eq" /\ chlog'.sets = chlog.sets + 1) =>
          LET req == chlog'.last.args
              within == \A i \in 1..3 : WithinTenth(req[i], dc.eq_cache[i])
              rebuilt == set_gains(req[1], req[2], req[3])
          IN  /\ within => dc' = dc
              /\ ~within => /\ dc'.eq_l = rebuilt
                            /\ dc'.eq_r = rebuilt
                            /\ dc'.eq_cache = req
              /\ \A i \in 1..3 : WithinTenth(req[i], dc'.eq_cache[i])
              /\ dc' = [dc EXCEPT !.eq_l = dc'.eq_l, !.eq_r = dc'.eq_r,
                                  !.eq_cache = dc'.eq_cache]]_vars

\* C25 witness: set_eq(6.05, 0, -3) was called on an enabled EQ that had been
\* set to (6, 0, -3) and had filtered a frame: the cache still holds 6 and
\* the filters still hold their history
C25_SmallChangeKeepsHistory ==
    /\ chlog.last.op = "set_eq"
    /\ chlog.last.args = <<B_6_05, BZero, B_m3>>
    /\ dc.eq_cache = <<B_6, BZero, B_m3>>
    /\ dc.eq_enabled
    /\ dc.eq_l.low_shelf.x1 # 0
    /\ dc.eq_r.high_shelf.y1 # 0

\* the sample a delay line set to `delay` before the first call returns at
\* call n, when call k was given the sample first + 2 * (k - 1)
PostDelay(n, delay, first, filtered) ==
    IF n <= delay THEN 0
    ELSE first + 2 * (n - delay - 1) + (IF filtered THEN 3 * FilterMark ELSE 0)

\* C21: the calls of process that publish the meter's levels to the shared
\* levels are the calls number 256, 512, ... and no others; the shared levels
\* hold what the last of these calls passed to update and are untouched before
\* the first; between calls update_counter is the number of calls made modulo
\* 256, so within 0..255; and the pair the meter is fed is the pair that
\* leaves the delay lines, which is also the pair returned.
C21_PublishEvery256thCall ==
    /\ dc.update_counter \in 0..(PublishEvery - 1)
    /\ dc.update_counter = chlog.calls % PublishEvery
    /\ Len(chlog.published) = chlog.calls \div PublishEvery
    /\ \A i \in 1..Len(chlog.published) : chlog.published[i] = i * PublishEvery
    /\ IF chlog.published = <<>> THEN levels = LvIdle
       ELSE /\ levels.args \in RmsDbTried
            /\ levels.shared = SharedLevels_update(SharedLevels_new,
                                                   levels.args[1], levels.args[2])
    /\ chlog.last.op = "process" => dc.meter = chlog.last.out
    /\ (chlog.shape = "long" /\ chlog.calls > 0) =>
          dc.meter = <<PostDelay(chlog.calls, dc.delay_l.delay_samples, 1, dc.eq_enabled),
                       PostDelay(chlog.calls, dc.delay_r.delay_samples, 2, dc.eq_enabled)>>

\* C21 witness: call 512 of a run with a delay of one sample has published for
\* the second time, and the meter was fed the frame given to call 511
C21_SecondPublication ==
    /\ chlog.calls = 2 * PublishEvery
    /\ chlog.published = <<PublishEvery, 2 * PublishEvery>>
    /\ chlog.last.args = <<4 * PublishEvery - 1, 4 * PublishEvery>>
    /\ dc.delay_l.delay_samples = 1
    /\ dc.meter = <<4 * PublishEvery - 3, 4 * PublishEvery - 2>>
    /\ dc.update_counter = 0
    /\ levels.shared.right_db = 600

DevicePcs == {"get_master_volume", "write_master_volume", "get_mute", "write_master_muted"}

\* C26 (as claimed): the capture loop reads the device's volume and mute in
\* every outer-loop iteration whose number is a multiple of 5 while
\* sync_master_volume is on, and in no other iteration; only there can it
\* change the shared master_volume and master_muted.
C26_DeviceReadEvery5th ==
    /\ cap.pc \in DevicePcs => clog.iter = 0 /\ cfg.sync_master_volume
    /\ cap.pc = "wait" => (clog.dev_read <=> (clog.iter = 0 /\ cfg.sync_master_volume))

\* C26 (amended): as claimed, for a capture thread that obtained the endpoint
\* volume interface of the source device at setup; one that did not reads
\* nothing in any iteration.  The shared master_volume and master_muted
\* change only in a step of the capture thread's device poll, in an
\* iteration whose number is a multiple of 5, with sync on.
C26_DeviceReadEvery5thWithEndpoint ==
    /\ [](/\ cap.pc \in DevicePcs =>
               clog.iter = 0 /\ cfg.sync_master_volume /\ cap.endpoint_volume
          /\ cap.pc = "wait" =>
               (clog.dev_read <=>
                   (clog.iter = 0 /\ cfg.sync_master_volume /\ cap.endpoint_volume)))
    /\ [][(cfg'.master_volume # cfg.master_volume \/ cfg'.master_muted # cfg.master_muted)
             => /\ cap.pc \in {"write_master_volume", "write_master_muted"}
                /\ clog.iter = 0
                /\ cfg.sync_master_volume]_vars

\* C26 witness: the poll of an iteration whose number is a multiple of 5 has
\* read the device and published its volume
C26_FifthIterationRead ==
    /\ cap.pc = "wait"
    /\ clog.iter = 0
    /\ clog.dev_read
    /\ cfg.sync_master_volume
    /\ cfg.master_volume = Half

\* the chain's settings correspond to the shared DSP parameters: the delay is
\* that of the shared delay_ms in samples, the flags are equal, the cached EQ
\* gains are within the 0.1 dB tolerance of the shared gains, the strength is
\* the shared strength within [0, 10]
Corresponds(chain, c) ==
    LET samples == DelayMsToSamples(chain.sample_rate, c.delay_ms)
    IN  /\ chain.delay_l.delay_samples = Min(samples, Len(chain.delay_l.buffer))
        /\ chain.delay_r.delay_samples = Min(samples, Len(chain.delay_r.buffer))
        /\ chain.eq_enabled = c.eq_enabled
        /\ WithinTenth(chain.eq_cache[1], c.eq_low)
        /\ WithinTenth(chain.eq_cache[2], c.eq_mid)
        /\ WithinTenth(chain.eq_cache[3], c.eq_high)
        /\ chain.upmix_enabled = c.upmix_enabled
        /\ chain.strength = FClamp(c.upmix_strength, Zero, Fin(10, 0))

\* C27 (as claimed): when the poll of an outer-loop iteration is done and no
\* shared DSP parameter was written since the iteration began, the chain's
\* delay, EQ flag and gains, upmix flag and strength correspond to the shared
\* values: every earlier change has been applied.
C27_PollAppliesSharedDsp ==
    (cap.pc = "wait" /\ ~clog.dirty) => Corresponds(cap.dsp_chain, cfg)

\* the router holds a route: a capture and the render stream made with it
RouteActive(a) == a.router.loopback # NoRoute /\ a.router.output_stream # NoRoute

\* C30: once main has passed its start of the routing, and after every tray
\* command handled since, the router holds a route only if config.enabled is
\* true, and while config.enabled is false the router is as stop() leaves it
\* (flag cleared, no capture, no stream).  A step that calls start_loopback
\* ends with config.enabled true, and from a state with config.enabled false
\* the only such step is the ToggleEnabled command.
C30_RouteOnlyWhileEnabled ==
    /\ [](app.phase # "main" =>
             /\ RouteActive(app) => app.config.enabled
             /\ ~app.config.enabled => app.router = RouterNew)
    /\ [][app'.starts # app.starts =>
             /\ app'.config.enabled
             /\ ~app.config.enabled => app'.last = "ToggleEnabled"]_vars

\* C30 witness: routing was on with a route held, other commands were
\* handled, and a ToggleEnabled has just turned it off and stopped the router
C30_ToggledOffAfterRoute ==
    /\ app.phase = "loop"
    /\ app.last = "ToggleEnabled"
    /\ ~app.config.enabled
    /\ app.starts >= 2
    /\ app.router = RouterNew
    /\ app.source_name = "Headset"

\* C31: under any interleaving of process and set_delay_samples calls, periods
\* at delay 0 included, a process call made at a delay d > 0 that was also the
\* delay of the d process calls before it returns the input given d calls
\* earlier.
DelayInEffect(n, d) ==
    /\ d > 0
    /\ n > d
    /\ \A k \in (n - d)..n : dlLog[k].delay = d

C31_SteadyDelayReturnsEarlierInput ==
    \A n \in 1..Len(dlLog) :
        DelayInEffect(n, dlLog[n].delay) => dlLog[n].output = dlLog[n - dlLog[n].delay].input

\* a run with a call at delay 0, then a delay of 2 in effect for two calls, and
\* a third call that returns the input of two calls before, not its own and
\* not the one before
C31_SteadyAfterBypass ==
    /\ Len(dlLog) = 4
    /\ dlLog[1].delay = 0 /\ dlLog[1].input # 0
    /\ DelayInEffect(4, 2)
    /\ dlLog[2].input = 1 /\ dlLog[3].input = 2 /\ dlLog[4].input = 0
    /\ dlLog[4].output = 1

\* C32: after process_channels has run on a source of one channel or more,
\* the index resolved for each side, and the indices 0 and 1 read as the front
\* pair, are smaller than the channel count, so that base + index stays in
\* the frame that starts at base.
FrameIndicesRead ==
    {0, 1, get_channel_idx(chIn.left_ch.source, chIn.channels),
           get_channel_idx(chIn.right_ch.source, chIn.channels)}

C32_IndicesWithinFrame ==
    (chOut.done /\ chIn.channels >= 1 /\ Len(chIn.input) > 0)
    => \A idx \in FrameIndicesRead : idx < chIn.channels

\* C33: under every interleaving of update and get, a pair returned by
\* SharedLevels::get is the initial pair or the pair of one update call.
PairsPublished ==
    {SharedLevels_get(p) : p \in lvt.published \cup {SharedLevels_new}}

C33_GetReturnsOnePublishedPair ==
    lvt.returned # <<>> => lvt.returned \in PairsPublished

\* C34: AudioRouter::stop clears the flags before it joins the capture thread,
\* drops the output stream only once the thread of that route has ended and
\* been joined, and leaves the router with no LoopbackCapture, no output
\* stream and is_running() false; on a router that holds nothing it changes
\* nothing.
StopDropsAfterJoin ==
    RouterStopDrop
    => /\ router.output_stream # NoRoute
            => /\ thr[router.output_stream].pc = "exited"
               /\ hist.joined[router.output_stream]
       /\ router' = RouterNew

StopOfStoppedRouter ==
    (CallStop /\ router = RouterNew)
    => /\ router' = router
       /\ ctl'.pc = "drop"
       /\ UNCHANGED <<thr, lbRunning, rb, cb>>

C34_StopJoinsThenDrops ==
    /\ [](ctl.pc = "join" => (~router.running /\ ~lbRunning[ctl.loopback]))
    /\ [][StopDropsAfterJoin]_vars
    /\ [][StopOfStoppedRouter]_vars

\* stop has returned on a route that was started, pushed samples, was joined
\* and had its stream dropped
C34_RunningRouteStopped ==
    /\ ctl = CtlIdle
    /\ hist.last_start = "none"
    /\ router = RouterNew
    /\ \E t \in RouteIds :
          /\ hist.result[t] = "ok"
          /\ hist.joined[t]
          /\ hist.pushed[t] # <<>>

\* C35 (as claimed): in the capture loop a buffer is acquired only when none
\* is out, every buffer obtained with a non-zero frame count is released with
\* that frame count before the next acquire, and no buffer is out when the
\* drain loop has ended or the capture loop has exited.
DrainBodyPcs == Range(BufferReads) \cup {"route", "resample", "process", "release"}

AcquiresWhenNoneOut ==
    (CapGetBuffer /\ cap'.pc # "top") => (cap.buffer = 0 /\ cap'.buffer > 0)

ReleasesWhatWasAcquired ==
    CapRelease => (cap.buffer > 0 /\ ReleaseCount(cap.loc) = cap.buffer)

FailedReleaseExits ==
    (CapRelease /\ cap'.pc # "get_buffer") => (cap'.pc = "exited" /\ cap'.exit = "fatal")

C36_EveryExitTearsDown ==
    (cap.pc = "exited" /\ cap.exit # "setup_err") => cap.live = {}

====
